---- MODULE Spec2Model ----
(***************************************************************************)
(* A model of the interaction layer of the VTK.js / WebXR mesh viewer:     *)
(*   - the desktop manipulator switchboard (setupInteractionModes),        *)
(*   - the event-driven VRControllerManager (src/src/controllers-js.js,    *)
(*     first class: connect/disconnect callbacks, beginGrab/endGrab,       *)
(*     beginPinch/endPinch, onControllerMoved),                             *)
(*   - the polling VRControllerManager (src/unnamed/part_001: per-frame    *)
(*     updateGrab and updatePinchScale over trigger/grip flags).           *)
(* The two managers are alternative implementations of the same class and  *)
(* use the same field names; they share the variables below and are run    *)
(* under separate specifications.                                          *)
(*                                                                         *)
(* Numbers.  Positions are 3-vectors of integers.  A scale is a            *)
(* non-negative rational <<n, d>> in lowest terms; JavaScript's Infinity   *)
(* is <<1, 0>> and NaN is <<0, 0>>, which is what x/0 and 0/0 evaluate to. *)
(* Colours are RGB triples in tenths.                                      *)
(***************************************************************************)
EXTENDS Integers, Sequences, FiniteSets, TLC

\* ------------------------------------------------------------ bounds

\* The actor's coordinates stay within -MaxCoord .. MaxCoord.
MaxCoord == 4

\* Numerator and denominator of the actor's scale stay within MaxScaleTerm.
MaxScaleTerm == 5

\* ------------------------------------------------------------ values

Devices == {"L1", "R1"}

\* Every device there is: a second left-hand device besides the two above.
AllDevices == Devices \cup {"L2"}

handedness(d) == IF d \in {"L1", "L2"} THEN "left" ELSE "right"

Hands == {"left", "right"}

\* Where a controller can be: a 3-4-5 triangle, so that all distances
\* (0, 3, 4, 5) are integers and Math.sqrt is computed exactly.
Positions == {<<0, 0, 0>>, <<3, 0, 0>>, <<0, 0, 4>>}

\* Where a controller can be in the larger specifications: at the actor's
\* first place or away from it.
NearFar == {<<0, 0, 0>>, <<3, 0, 0>>}

Origin == <<0, 0, 0>>

White == <<10, 10, 10>>

GrabColor == <<10, 8, 1>>

PinchColor == <<1, 8, 10>>

Modes == {"rotate", "scale", "translate", "inspect"}

\* What the mode selector can hand to setMode: the four modes and a string
\* that is none of them.
ModeInputs == Modes \cup {"bogus"}

Manipulators == {"rotateManipulator", "panManipulator", "zoomManipulator",
                 "scaleManipulator"}

\* ------------------------------------------------------------ arithmetic

RECURSIVE Gcd(_, _)
Gcd(a, b) == IF b = 0 THEN a ELSE Gcd(b, a % b)

\* A quotient n/d of non-negative integers as JavaScript evaluates it.
Norm(n, d) ==
  IF d = 0 THEN (IF n = 0 THEN <<0, 0>> ELSE <<1, 0>>)
  ELSE IF n = 0 THEN <<0, 1>>
  ELSE <<n \div Gcd(n, d), d \div Gcd(n, d)>>

Mul(a, b) == Norm(a[1] * b[1], a[2] * b[2])

One == <<1, 1>>

InBounds(s) == s[1] <= MaxScaleTerm /\ s[2] <= MaxScaleTerm

Sq(x) == x * x

\* Math.sqrt on the perfect squares the model's positions produce.
Sqrt(n) == CHOOSE r \in 0..n : r * r = n

Add3(p, q) == <<p[1] + q[1], p[2] + q[2], p[3] + q[3]>>

Sub3(p, q) == <<p[1] - q[1], p[2] - q[2], p[3] - q[3]>>

Abs(x) == IF x < 0 THEN -x ELSE x

PosInBounds(p) == \A i \in 1..3 : Abs(p[i]) <= MaxCoord

VARIABLES
  \* the desktop switchboard
  bound,              \* istyle's mouse manipulators, in the order added
  button,             \* each manipulator's button
  currentMode,
  \* the renderable
  actorPos, actorScale, actorColor,
  inScene,            \* renderer.getActors() holds the actor
  \* the devices (environment)
  ctrlPos,            \* controller.position / getWorldPosition()
  trig, grip,         \* the physical trigger / grip is down
  listening,          \* how many times listeners were attached to the device
  \* VRControllerManager
  controllers, grabbedObject, pinchObject, pinchStartDistance, initialScale,
  isXRActive, triggerPressed, gripPressed,
  \* bookkeeping
  redraws,            \* renderWindow.render() calls made by the last handler
  threw,              \* the last handler raised an exception
  lastEvent,          \* the event the last handler handled
  grabStart,          \* actor position, controller position and actor colour
                      \* at the last trigger-down
  pinchSeen,          \* scale and distance at the first poll of a pinch
  connected,          \* per hand, the devices connected and not disconnected
                      \* since, in the order they connected
  \* the frame loops of the polling manager
  camera,             \* elevation and azimuth, in steps of viewMoveSpeed * 2
  isInitialized,
  animatePending,     \* animate callbacks registered for the next frame
  highlightedActors,  \* laserLoop: the hand's ray highlights the actor
  originalColor,      \* actor._originalColor, or "null"
  beforeHighlight,    \* the actor's colour just before the last highlight was applied
  \* the actor facade and the callback-style VR handlers (interactions-js.js)
  actorRot,           \* the actor's rotation about Y, in hundredths of a degree
  userData,           \* actor.userData
  captured,           \* position, scale and rotation at makeActorInteractive
  attached,           \* the gesture recognizer set up on the controllers
  interactorStyle,    \* whose style the interactor has: "modes" or "standard"
  connectedCallback,  \* the XR helper's controller-connected callback
  files,              \* the file reads in flight and the mapper's input
  vrButton,           \* the VR button's label and the XR session it toggles
  th                  \* setupTwoHandedInteraction's controllers object

modeVars == <<bound, button, currentMode>>

actorVars == <<actorPos, actorScale, actorColor, inScene>>

deviceVars == <<ctrlPos, trig, grip, listening>>

managerVars == <<controllers, grabbedObject, pinchObject, pinchStartDistance,
                 initialScale, isXRActive, triggerPressed, gripPressed>>

bookVars == <<redraws, threw, lastEvent>>

ghostVars == <<grabStart, pinchSeen, connected>>

loopVars == <<camera, isInitialized, animatePending, highlightedActors, originalColor,
              beforeHighlight>>

facadeVars == <<actorRot, userData, captured, th, attached, interactorStyle,
                connectedCallback, files, vrButton>>

vars == <<modeVars, actorVars, deviceVars, managerVars, bookVars, ghostVars, loopVars,
          facadeVars>>

Event(t, d) == [type |-> t, dev |-> d]

\* d is connected and has not been disconnected since
Live(d) == \E i \in 1..Len(connected[handedness(d)]) : connected[handedness(d)][i] = d

Without(seq, d) == SelectSeq(seq, LAMBDA x : x # d)

Arrived(c, d) == [c EXCEPT ![handedness(d)] = Append(Without(@, d), d)]

Left(c, d) == [c EXCEPT ![handedness(d)] = Without(@, d)]

RECURSIVE ArrivedAll(_, _)
ArrivedAll(c, ds) ==
  IF ds = {} THEN c
  ELSE LET d == CHOOSE x \in ds : TRUE
       IN  ArrivedAll(Arrived(c, d), ds \ {d})

RECURSIVE LeftAll(_, _)
LeftAll(c, ds) ==
  IF ds = {} THEN c
  ELSE LET d == CHOOSE x \in ds : TRUE
       IN  LeftAll(Left(c, d), ds \ {d})

\* ------------------------------------------------------------ switchboard

\* istyle.addMouseManipulator(m)
addMouseManipulator(st, m) == [st EXCEPT !.bound = Append(@, m)]

\* m.setButton(b); the code passes the result on as the manipulator
setButton(st, m, b) == [st EXCEPT !.button[m] = b]

\* removeAllMouseManipulators removing nothing
removeAllMouseManipulators_KeepsAll(st) == st

\* istyle.removeAllMouseManipulators()
removeAllMouseManipulators(st) == [st EXCEPT !.bound = <<>>]

RotateCase(st) ==
  LET s1 == addMouseManipulator(st, "rotateManipulator")
      s2 == addMouseManipulator(setButton(s1, "panManipulator", 2), "panManipulator")
  IN  addMouseManipulator(setButton(s2, "zoomManipulator", 3), "zoomManipulator")

ScaleCase(st) ==
  LET s1 == addMouseManipulator(st, "scaleManipulator")
      s2 == addMouseManipulator(setButton(s1, "panManipulator", 2), "panManipulator")
  IN  addMouseManipulator(setButton(s2, "rotateManipulator", 3), "rotateManipulator")

TranslateCase(st) ==
  LET s1 == addMouseManipulator(setButton(st, "panManipulator", 1), "panManipulator")
      s2 == addMouseManipulator(setButton(s1, "rotateManipulator", 2), "rotateManipulator")
  IN  addMouseManipulator(setButton(s2, "zoomManipulator", 3), "zoomManipulator")

InspectCase(st) ==
  LET s1 == addMouseManipulator(st, "rotateManipulator")
  IN  addMouseManipulator(setButton(s1, "zoomManipulator", 3), "zoomManipulator")

\* the switch of setMode with an empty default branch
ModeSwitch_EmptyDefault(mode, st) ==
  CASE mode = "rotate"    -> RotateCase(st)
    [] mode = "scale"     -> ScaleCase(st)
    [] mode = "translate" -> TranslateCase(st)
    [] mode = "inspect"   -> InspectCase(st)
    [] OTHER              -> st

\* the switch of setMode, after the manipulators were cleared
ModeSwitch(mode, st) ==
  CASE mode = "rotate"    -> RotateCase(st)
    [] mode = "scale"     -> ScaleCase(st)
    [] mode = "translate" -> TranslateCase(st)
    [] mode = "inspect"   -> InspectCase(st)
    [] OTHER              -> RotateCase(st)

\* The manipulators as constructed: every vtk manipulator starts on button 1.
NewButtons == [m \in Manipulators |-> 1]

\* setupInteractionModes ends with setMode(currentMode), currentMode = rotate.
InitialStyle ==
  ModeSwitch("rotate", removeAllMouseManipulators([bound |-> <<>>, button |-> NewButtons]))

\* setMode redrawing only when the mode changes
setMode_RedrawsOnChange(mode) ==
  LET st == ModeSwitch(mode, removeAllMouseManipulators([bound |-> bound, button |-> button]))
  IN  /\ bound' = st.bound
      /\ button' = st.button
      /\ currentMode' = mode
      /\ redraws' = IF mode = currentMode THEN 0 ELSE 1
      /\ threw' = FALSE
      /\ lastEvent' = Event("setMode", "-")
      /\ UNCHANGED <<actorVars, deviceVars, managerVars, ghostVars, loopVars,
                     facadeVars>>

setMode(mode) ==
  LET st == ModeSwitch(mode, removeAllMouseManipulators([bound |-> bound, button |-> button]))
  IN  /\ bound' = st.bound
      /\ button' = st.button
      /\ currentMode' = mode
      /\ redraws' = 1
      /\ threw' = FALSE
      /\ lastEvent' = Event("setMode", "-")
      /\ UNCHANGED <<actorVars, deviceVars, managerVars, ghostVars, loopVars,
                     facadeVars>>

\* The vertical listener of the scale manipulator (button 1, range 0.5 .. 2.0
\* in steps of 0.1): a vertical drag while the manipulator is bound hands the
\* listener a value of the range.
ScaleRangeMin == 5

ScaleRangeMax == 20

ScaleListener(tenths) ==
  /\ \E i \in 1..Len(bound) : bound[i] = "scaleManipulator"
  /\ actorScale' = Norm(tenths, 10)
  /\ redraws' = 1
  /\ threw' = FALSE
  /\ lastEvent' = Event("drag", "-")
  /\ UNCHANGED <<modeVars, facadeVars, loopVars, actorPos, actorColor, inScene, deviceVars, managerVars, ghostVars>>

\* ------------------------------------------------------------ file loading

\* fileReader.onload of handleFile: the parsed mesh is attached and the actor
\* is added to the renderer.
handleFile ==
  /\ inScene' = TRUE
  /\ redraws' = 1
  /\ threw' = FALSE
  /\ lastEvent' = Event("load", "-")
  /\ UNCHANGED <<modeVars, facadeVars, loopVars, actorPos, actorScale, actorColor, deviceVars, managerVars,
                 ghostVars>>

\* ------------------------------------------------------------ colour selector

\* The colours the selector offers.
Red == <<10, 0, 0>>

SelectorColors == {White, Red}

\* The change listener of colorSelector: the chosen colour is set on the
\* actor and the window is rendered.
colorSelectorChange(c) ==
  /\ actorColor' = c
  /\ redraws' = 1
  /\ threw' = FALSE
  /\ lastEvent' = Event("color", "-")
  /\ UNCHANGED <<modeVars, facadeVars, loopVars, actorPos, actorScale, inScene, deviceVars, managerVars,
                 ghostVars>>

\* ------------------------------------------------------------ event-driven manager

\* What the handlers of the manager read and write, as one record; redraws
\* counts the renderWindow.render() calls of the handler being run.
NoGrab == [controller |-> "null", initialPosition |-> Origin,
           initialControllerPosition |-> Origin, offsetPosition |-> Origin]

NoPinch == [actor |-> "null", initialScale |-> One]

\* nth: how many pinches the polls have seen so far (1, or 2 for more);
\* recorded: the start distance was recorded by a poll of the current session
NoPinchSeen == [active |-> FALSE, scale |-> One, dist |-> 0, nth |-> 0,
                recorded |-> FALSE]

Cur == [grabbedObject |-> grabbedObject, pinchObject |-> pinchObject,
        pinchStartDistance |-> pinchStartDistance,
        actorPos |-> actorPos, actorScale |-> actorScale, actorColor |-> actorColor,
        redraws |-> 0]

\* Math.sqrt(dx^2 + dy^2 + dz^2)
Distance(p, q) == Sqrt(Sq(q[1] - p[1]) + Sq(q[2] - p[2]) + Sq(q[3] - p[3]))

\* renderer.getActors()[0], or null
findClosestActor == IF inScene THEN "actor" ELSE "null"

\* beginGrab without the test of the actor it found.
beginGrab_Unconditional(s, d) ==
  [s EXCEPT !.grabbedObject = [controller |-> d,
                               initialPosition |-> s.actorPos,
                               initialControllerPosition |-> ctrlPos[d],
                               offsetPosition |-> Origin],
            !.actorColor = GrabColor,
            !.redraws = @ + 1]

beginGrab(s, d) ==
  IF findClosestActor # "null"
  THEN [s EXCEPT !.grabbedObject = [controller |-> d,
                                    initialPosition |-> s.actorPos,
                                    initialControllerPosition |-> ctrlPos[d],
                                    offsetPosition |-> Origin],
                 !.actorColor = GrabColor,
                 !.redraws = @ + 1]
  ELSE s

\* endGrab without the test that the controller is the grab's.
endGrab_AnyController(s, d) ==
  IF s.grabbedObject.controller # "null"
  THEN [s EXCEPT !.grabbedObject = NoGrab,
                 !.actorColor = White,
                 !.redraws = @ + 1]
  ELSE s

\* endGrab with the release forgotten: the colour is reset, the grab stays.
endGrab_KeepsSession(s, d) ==
  IF s.grabbedObject.controller # "null" /\ s.grabbedObject.controller = d
  THEN [s EXCEPT !.actorColor = White, !.redraws = @ + 1]
  ELSE s

endGrab(s, d) ==
  IF s.grabbedObject.controller # "null" /\ s.grabbedObject.controller = d
  THEN [s EXCEPT !.grabbedObject = NoGrab,
                 !.actorColor = White,
                 !.redraws = @ + 1]
  ELSE s

\* cs: the controllers map at the time of the call
beginPinch(s, cs, d) ==
  IF cs["left"] # "null" /\ cs["right"] # "null"
  THEN LET s1 == [s EXCEPT !.pinchStartDistance =
                             Distance(ctrlPos[cs["left"]], ctrlPos[cs["right"]])]
       IN  IF findClosestActor # "null"
           THEN [s1 EXCEPT !.pinchObject = [actor |-> "actor",
                                            initialScale |-> s.actorScale],
                           !.actorColor = PinchColor,
                           !.redraws = @ + 1]
           ELSE s1
  ELSE s

\* endPinch putting the actor back to the scale it had when the pinch began.
endPinch_RestoresScale(s, d) ==
  IF s.pinchObject.actor # "null"
  THEN [s EXCEPT !.pinchObject = NoPinch,
                 !.actorScale = s.pinchObject.initialScale,
                 !.actorColor = White,
                 !.redraws = @ + 1]
  ELSE s

endPinch(s, d) ==
  IF s.pinchObject.actor # "null"
  THEN [s EXCEPT !.pinchObject = NoPinch,
                 !.actorColor = White,
                 !.redraws = @ + 1]
  ELSE s

\* updateGrabbedObjectPosition without the delta: the actor is put at the
\* controller's position.
updateGrabbedObjectPosition_Absolute(s, pos, d) ==
  IF s.grabbedObject.controller = "null" THEN s
  ELSE [s EXCEPT !.actorPos = pos[d], !.redraws = @ + 1]

\* pos: the controller positions at the time of the call
updateGrabbedObjectPosition(s, pos, d) ==
  IF s.grabbedObject.controller = "null" THEN s
  ELSE [s EXCEPT !.actorPos = Add3(s.grabbedObject.initialPosition,
                                   Sub3(pos[d], s.grabbedObject.initialControllerPosition)),
                 !.redraws = @ + 1]

processGestures(s, cs, pos) ==
  IF cs["left"] = "null" \/ cs["right"] = "null" \/ s.pinchObject.actor = "null"
  THEN s
  ELSE LET currentDistance == Distance(pos[cs["left"]], pos[cs["right"]])
           scaleFactor == Norm(currentDistance, s.pinchStartDistance)
           newScale == Mul(s.pinchObject.initialScale, scaleFactor)
       IN  [s EXCEPT !.actorScale = newScale, !.redraws = @ + 1]

onControllerMovedBody(s, cs, pos, d) ==
  LET s1 == IF s.grabbedObject.controller # "null" /\ s.grabbedObject.controller = d
            THEN updateGrabbedObjectPosition(s, pos, d)
            ELSE s
  IN  processGestures(s1, cs, pos)

\* A listener added k times runs k times on each event.
RECURSIVE Times(_, _, _, _)
Times(k, handler(_, _), s, d) ==
  IF k = 0 THEN s ELSE Times(k - 1, handler, handler(s, d), d)

beginPinchNow(s, d) == beginPinch(s, controllers, d)

\* The handler's result becomes the next state.
Commit(s) ==
  /\ grabbedObject' = s.grabbedObject
  /\ pinchObject' = s.pinchObject
  /\ pinchStartDistance' = s.pinchStartDistance
  /\ actorPos' = s.actorPos
  /\ actorScale' = s.actorScale
  /\ actorColor' = s.actorColor
  /\ redraws' = s.redraws
  /\ threw' = FALSE
  /\ PosInBounds(s.actorPos)
  /\ InBounds(s.actorScale)

\* The bound on the listeners a device accumulates over its reconnects.
MaxListeners == 1

onControllerConnected(d) ==
  /\ ~Live(d)
  /\ listening[d] < MaxListeners
  /\ connected' = Arrived(connected, d)
  /\ controllers' = [controllers EXCEPT ![handedness(d)] = d]
  /\ listening' = [listening EXCEPT ![d] = @ + 1]
  /\ Commit(Cur)
  /\ lastEvent' = Event("connected", d)
  /\ UNCHANGED <<modeVars, facadeVars, loopVars, inScene, ctrlPos, trig, grip, initialScale, isXRActive,
                 triggerPressed, gripPressed, grabStart, pinchSeen>>

\* onControllerDisconnected without the release of the object grabbed with
\* the controller.
onControllerDisconnected_KeepsGrab(d) ==
  /\ Live(d)
  /\ connected' = Left(connected, d)
  /\ controllers' = [controllers EXCEPT ![handedness(d)] = "null"]
  /\ Commit(Cur)
  /\ lastEvent' = Event("disconnected", d)
  /\ grabStart' = IF grabStart.active /\ grabStart.dev = d
                  THEN [grabStart EXCEPT !.active = FALSE, !.endedBy = "disconnected"]
                  ELSE grabStart
  /\ UNCHANGED <<modeVars, facadeVars, loopVars, inScene, deviceVars, initialScale, isXRActive,
                 triggerPressed, gripPressed, pinchSeen>>

onControllerDisconnected(d) ==
  /\ Live(d)
  /\ connected' = Left(connected, d)
  /\ controllers' = [controllers EXCEPT ![handedness(d)] = "null"]
  /\ Commit(IF grabbedObject.controller # "null" /\ grabbedObject.controller = d
            THEN endGrab(Cur, d) ELSE Cur)
  /\ lastEvent' = Event("disconnected", d)
  /\ grabStart' = IF grabStart.active /\ grabStart.dev = d
                  THEN [grabStart EXCEPT !.active = FALSE, !.endedBy = "disconnected"]
                  ELSE grabStart
  /\ UNCHANGED <<modeVars, facadeVars, loopVars, inScene, deviceVars, initialScale, isXRActive,
                 triggerPressed, gripPressed, pinchSeen>>

onControllerMoved(d, p) ==
  /\ listening[d] > 0
  /\ ctrlPos' = [ctrlPos EXCEPT ![d] = p]
  /\ Commit(onControllerMovedBody(Cur, controllers, ctrlPos', d))
  /\ lastEvent' = Event("moved", d)
  /\ UNCHANGED <<modeVars, facadeVars, loopVars, inScene, trig, grip, listening, controllers, initialScale,
                 isXRActive, triggerPressed, gripPressed, ghostVars>>

selectstart(d) ==
  /\ listening[d] > 0
  /\ ~trig[d]
  /\ trig' = [trig EXCEPT ![d] = TRUE]
  /\ Commit(Times(listening[d], beginGrab, Cur, d))
  /\ lastEvent' = Event("selectstart", d)
  /\ grabStart' = IF inScene
                  THEN [active |-> TRUE, dev |-> d, actor |-> actorPos,
                        ctrl |-> ctrlPos[d], color |-> actorColor,
                        endedBy |-> "-"]
                  ELSE grabStart
  /\ UNCHANGED <<modeVars, facadeVars, loopVars, inScene, ctrlPos, grip, listening, controllers, initialScale,
                 isXRActive, triggerPressed, gripPressed, pinchSeen, connected>>

selectend(d) ==
  /\ listening[d] > 0
  /\ trig[d]
  /\ trig' = [trig EXCEPT ![d] = FALSE]
  /\ Commit(Times(listening[d], endGrab, Cur, d))
  /\ lastEvent' = Event("selectend", d)
  /\ grabStart' = IF grabStart.active /\ grabStart.dev = d
                  THEN [grabStart EXCEPT !.active = FALSE, !.endedBy = "selectend"]
                  ELSE grabStart
  /\ UNCHANGED <<modeVars, facadeVars, loopVars, inScene, ctrlPos, grip, listening, controllers, initialScale,
                 isXRActive, triggerPressed, gripPressed, pinchSeen, connected>>

squeezestart(d) ==
  /\ listening[d] > 0
  /\ ~grip[d]
  /\ grip' = [grip EXCEPT ![d] = TRUE]
  /\ Commit(Times(listening[d], beginPinchNow, Cur, d))
  /\ lastEvent' = Event("squeezestart", d)
  /\ pinchSeen' = IF pinchObject' # NoPinch
                  THEN [active |-> TRUE, scale |-> actorScale, dist |-> 0, nth |-> 1,
                        recorded |-> FALSE]
                  ELSE pinchSeen
  /\ UNCHANGED <<modeVars, facadeVars, loopVars, inScene, ctrlPos, trig, listening, controllers, initialScale,
                 isXRActive, triggerPressed, gripPressed, grabStart, connected>>

squeezeend(d) ==
  /\ listening[d] > 0
  /\ grip[d]
  /\ grip' = [grip EXCEPT ![d] = FALSE]
  /\ Commit(Times(listening[d], endPinch, Cur, d))
  /\ lastEvent' = Event("squeezeend", d)
  /\ pinchSeen' = [pinchSeen EXCEPT !.active = FALSE]
  /\ UNCHANGED <<modeVars, facadeVars, loopVars, inScene, ctrlPos, trig, listening, controllers, initialScale,
                 isXRActive, triggerPressed, gripPressed, grabStart, connected>>

\* ------------------------------------------------------------ polling manager

\* The controller objects are the devices; a controller in a slot, or "null".
Slot(h) == controllers[h]

\* setupController(inputSource), for a source whose controller the helper
\* returns: the slot is (re)filled, both flags are cleared, the four listeners
\* are added.  The listeners only set flags, so added twice they act as once.
setupController(m, d) ==
  [m EXCEPT !.controllers[handedness(d)] = d,
            !.triggerPressed[d] = FALSE,
            !.gripPressed[d] = FALSE,
            !.listening[d] = 1]

RECURSIVE SetupAll(_, _)
SetupAll(m, ds) ==
  IF ds = {} THEN m
  ELSE LET d == CHOOSE x \in ds : TRUE
       IN  SetupAll(setupController(m, d), ds \ {d})

RECURSIVE RemoveAll(_, _)
RemoveAll(cs, ds) ==
  IF ds = {} THEN cs
  ELSE LET d == CHOOSE x \in ds : TRUE
       IN  RemoveAll([cs EXCEPT ![handedness(d)] = "null"], ds \ {d})

Registry == [controllers |-> controllers, triggerPressed |-> triggerPressed,
             gripPressed |-> gripPressed, listening |-> listening]

CommitRegistry(m) ==
  /\ controllers' = m.controllers
  /\ triggerPressed' = m.triggerPressed
  /\ gripPressed' = m.gripPressed
  /\ listening' = m.listening

\* onSessionStarted(session); present: the session's input sources at that time
onSessionStarted(present) ==
  /\ ~isXRActive
  /\ isXRActive' = TRUE
  /\ CommitRegistry(SetupAll(Registry, present))
  /\ connected' = ArrivedAll(connected, present)
  /\ redraws' = 0
  /\ threw' = FALSE
  /\ lastEvent' = Event("sessionstart", "-")
  /\ pinchSeen' = [pinchSeen EXCEPT !.recorded = FALSE]
  /\ UNCHANGED <<modeVars, facadeVars, loopVars, actorVars, ctrlPos, trig, grip, grabbedObject, pinchObject,
                 pinchStartDistance, initialScale, grabStart>>

onSessionEnded ==
  /\ isXRActive
  /\ isXRActive' = FALSE
  /\ controllers' = [h \in Hands |-> "null"]
  /\ connected' = [h \in Hands |-> <<>>]
  /\ redraws' = 0
  /\ threw' = FALSE
  /\ lastEvent' = Event("sessionend", "-")
  /\ UNCHANGED <<modeVars, facadeVars, loopVars, actorVars, deviceVars, grabbedObject, pinchObject,
                 pinchStartDistance, initialScale, triggerPressed, gripPressed,
                 grabStart, pinchSeen>>

\* The session's inputsourceschange event: the added sources are set up, then
\* the removed ones leave their slots.
handleInputSourcesChange(added, removed) ==
  /\ isXRActive
  /\ added \cup removed # {}
  /\ added \cap removed = {}
  /\ \A d \in added : ~Live(d)
  /\ \A d \in removed : Live(d)
  /\ connected' = LeftAll(ArrivedAll(connected, added), removed)
  /\ LET m == SetupAll(Registry, added)
     IN  CommitRegistry([m EXCEPT !.controllers = RemoveAll(@, removed)])
  /\ redraws' = 0
  /\ threw' = FALSE
  /\ lastEvent' = Event("inputsourceschange", "-")
  /\ UNCHANGED <<modeVars, facadeVars, loopVars, actorVars, ctrlPos, trig, grip, grabbedObject, pinchObject,
                 pinchStartDistance, initialScale, isXRActive, grabStart, pinchSeen>>

\* The listeners setupController adds.
FlagListener(d, t) ==
  /\ listening[d] > 0
  /\ redraws' = 0
  /\ threw' = FALSE
  /\ lastEvent' = Event(t, d)
  /\ UNCHANGED <<modeVars, facadeVars, loopVars, actorVars, ctrlPos, listening, controllers, grabbedObject,
                 pinchObject, pinchStartDistance, initialScale, isXRActive, ghostVars>>

triggerPressedListener(d) ==
  /\ ~trig[d]
  /\ trig' = [trig EXCEPT ![d] = TRUE]
  /\ triggerPressed' = [triggerPressed EXCEPT ![d] = TRUE]
  /\ FlagListener(d, "selectstart")
  /\ UNCHANGED <<grip, gripPressed>>

triggerReleasedListener(d) ==
  /\ trig[d]
  /\ trig' = [trig EXCEPT ![d] = FALSE]
  /\ triggerPressed' = [triggerPressed EXCEPT ![d] = FALSE]
  /\ FlagListener(d, "selectend")
  /\ UNCHANGED <<grip, gripPressed>>

gripPressedListener(d) ==
  /\ ~grip[d]
  /\ grip' = [grip EXCEPT ![d] = TRUE]
  /\ gripPressed' = [gripPressed EXCEPT ![d] = TRUE]
  /\ FlagListener(d, "squeezestart")
  /\ UNCHANGED <<trig, triggerPressed>>

gripReleasedListener(d) ==
  /\ grip[d]
  /\ grip' = [grip EXCEPT ![d] = FALSE]
  /\ gripPressed' = [gripPressed EXCEPT ![d] = FALSE]
  /\ FlagListener(d, "squeezeend")
  /\ UNCHANGED <<trig, triggerPressed>>

\* The device moves: getWorldPosition() answers p from now on.  No handler runs.
getWorldPosition(d, p) ==
  /\ listening[d] > 0
  /\ p # ctrlPos[d]
  /\ ctrlPos' = [ctrlPos EXCEPT ![d] = p]
  /\ redraws' = 0
  /\ threw' = FALSE
  /\ lastEvent' = Event("pose", d)
  /\ UNCHANGED <<modeVars, facadeVars, loopVars, actorVars, trig, grip, listening, managerVars, ghostVars>>

\* controllers.<hand>?.triggerPressed
HandTrigger(h) == Slot(h) # "null" /\ triggerPressed[Slot(h)]

HandGrip(h) == Slot(h) # "null" /\ gripPressed[Slot(h)]

\* The first half of updateGrab with the two hands tested in the other order.
GrabAtPoll_LeftFirst ==
  IF HandTrigger("left") /\ grabbedObject.controller = "null"
  THEN [controller |-> Slot("left"), initialPosition |-> actorPos,
        initialControllerPosition |-> Origin, offsetPosition |-> Origin]
  ELSE IF HandTrigger("right") /\ grabbedObject.controller = "null"
  THEN [controller |-> Slot("right"), initialPosition |-> actorPos,
        initialControllerPosition |-> Origin, offsetPosition |-> Origin]
  ELSE grabbedObject

\* The first half of updateGrab: who, if anyone, starts a grab at this poll.
GrabAtPoll ==
  IF HandTrigger("right") /\ grabbedObject.controller = "null"
  THEN [controller |-> Slot("right"), initialPosition |-> actorPos,
        initialControllerPosition |-> Origin, offsetPosition |-> Origin]
  ELSE IF HandTrigger("left") /\ grabbedObject.controller = "null"
  THEN [controller |-> Slot("left"), initialPosition |-> actorPos,
        initialControllerPosition |-> Origin, offsetPosition |-> Origin]
  ELSE grabbedObject

\* Where updateGrab puts the actor while the owner's trigger flag is set.
GrabTarget(g) == Add3(ctrlPos[g.controller], g.offsetPosition)

\* updateGrab without its check of isXRActive.
updateGrab_NoSessionCheck ==
  /\ lastEvent' = Event("updateGrab", "-")
  /\ threw' = FALSE
  /\ IF FALSE
     THEN /\ redraws' = 0
          /\ UNCHANGED <<grabbedObject, actorPos, grabStart>>
     ELSE LET g == GrabAtPoll
          IN  IF g.controller = "null"
              THEN /\ redraws' = 0
                   /\ UNCHANGED <<grabbedObject, actorPos, grabStart>>
              ELSE IF ~triggerPressed[g.controller]
              THEN /\ grabbedObject' = NoGrab
                   /\ redraws' = 0
                   /\ grabStart' = [grabStart EXCEPT !.active = FALSE,
                                                     !.endedBy = "selectend"]
                   /\ UNCHANGED actorPos
              ELSE /\ grabbedObject' = g
                   /\ actorPos' = GrabTarget(g)
                   /\ redraws' = 1
                   /\ grabStart' = IF grabbedObject.controller = "null"
                                   THEN [active |-> TRUE, dev |-> g.controller,
                                         actor |-> actorPos,
                                         ctrl |-> ctrlPos[g.controller],
                                         color |-> actorColor,
                                         endedBy |-> "-"]
                                   ELSE grabStart
  /\ UNCHANGED <<modeVars, facadeVars, loopVars, actorScale, actorColor, inScene, deviceVars, controllers,
                 pinchObject, pinchStartDistance, initialScale, isXRActive,
                 triggerPressed, gripPressed, pinchSeen, connected>>

\* One run of grabLoop's updateGrab.
updateGrab ==
  /\ lastEvent' = Event("updateGrab", "-")
  /\ threw' = FALSE
  /\ IF ~isXRActive
     THEN /\ redraws' = 0
          /\ UNCHANGED <<grabbedObject, actorPos, grabStart>>
     ELSE LET g == GrabAtPoll
          IN  IF g.controller = "null"
              THEN /\ redraws' = 0
                   /\ UNCHANGED <<grabbedObject, actorPos, grabStart>>
              ELSE IF ~triggerPressed[g.controller]
              THEN /\ grabbedObject' = NoGrab
                   /\ redraws' = 0
                   /\ grabStart' = [grabStart EXCEPT !.active = FALSE,
                                                     !.endedBy = "selectend"]
                   /\ UNCHANGED actorPos
              ELSE /\ grabbedObject' = g
                   /\ actorPos' = GrabTarget(g)
                   /\ redraws' = 1
                   /\ grabStart' = IF grabbedObject.controller = "null"
                                   THEN [active |-> TRUE, dev |-> g.controller,
                                         actor |-> actorPos,
                                         ctrl |-> ctrlPos[g.controller],
                                         color |-> actorColor,
                                         endedBy |-> "-"]
                                   ELSE grabStart
  /\ UNCHANGED <<modeVars, facadeVars, loopVars, actorScale, actorColor, inScene, deviceVars, controllers,
                 pinchObject, pinchStartDistance, initialScale, isXRActive,
                 triggerPressed, gripPressed, pinchSeen, connected>>

\* Both grips are held on two connected controllers during a session.
BothGripsHeld ==
  /\ isXRActive
  /\ \A h \in Hands : HandGrip(h) /\ grip[Slot(h)]

PollDistance == Distance(ctrlPos[Slot("left")], ctrlPos[Slot("right")])

\* updatePinchScale's quotient turned over: start distance / current distance.
PinchScale_Inverted(currentDistance) ==
  Mul(Norm(pinchStartDistance, currentDistance), initialScale)

\* The scale updatePinchScale sets once a start distance is recorded.
PinchScale(currentDistance) ==
  Mul(Norm(currentDistance, pinchStartDistance), initialScale)

\* updatePinchScale without its test of the two grip flags.
updatePinchScale_NoGripCheck ==
  /\ lastEvent' = Event("updatePinchScale", "-")
  /\ threw' = FALSE
  /\ IF ~isXRActive \/ Slot("left") = "null" \/ Slot("right") = "null"
     THEN /\ redraws' = 0
          /\ UNCHANGED <<pinchStartDistance, initialScale, actorScale>>
     ELSE IF pinchStartDistance = 0
     THEN /\ pinchStartDistance' = PollDistance
          /\ initialScale' = actorScale
          /\ redraws' = 0
          /\ UNCHANGED actorScale
     ELSE /\ actorScale' = PinchScale(PollDistance)
          /\ InBounds(actorScale')
          /\ redraws' = 1
          /\ UNCHANGED <<pinchStartDistance, initialScale>>
  /\ pinchSeen' = IF ~BothGripsHeld
                  THEN [NoPinchSeen EXCEPT !.nth = pinchSeen.nth,
                                           !.recorded = pinchStartDistance' # pinchStartDistance
                                                          \/ pinchSeen.recorded]
                  ELSE IF pinchSeen.active
                  THEN [pinchSeen EXCEPT !.recorded = pinchStartDistance' # pinchStartDistance
                                                        \/ pinchSeen.recorded]
                  ELSE [active |-> TRUE, scale |-> actorScale, dist |-> PollDistance,
                        nth |-> IF pinchSeen.nth = 0 THEN 1 ELSE 2,
                        recorded |-> pinchStartDistance' # pinchStartDistance
                                       \/ pinchSeen.recorded]
  /\ UNCHANGED <<modeVars, facadeVars, loopVars, actorPos, actorColor, inScene, deviceVars, controllers,
                 grabbedObject, pinchObject, isXRActive, triggerPressed, gripPressed,
                 grabStart, connected>>

\* One run of pinchLoop: updatePinchScale when a session is active.
updatePinchScale ==
  /\ lastEvent' = Event("updatePinchScale", "-")
  /\ threw' = FALSE
  /\ IF ~isXRActive \/ Slot("left") = "null" \/ Slot("right") = "null"
        \/ ~gripPressed[Slot("left")] \/ ~gripPressed[Slot("right")]
     THEN /\ redraws' = 0
          /\ UNCHANGED <<pinchStartDistance, initialScale, actorScale>>
     ELSE IF pinchStartDistance = 0
     THEN /\ pinchStartDistance' = PollDistance
          /\ initialScale' = actorScale
          /\ redraws' = 0
          /\ UNCHANGED actorScale
     ELSE /\ actorScale' = PinchScale(PollDistance)
          /\ InBounds(actorScale')
          /\ redraws' = 1
          /\ UNCHANGED <<pinchStartDistance, initialScale>>
  /\ pinchSeen' = IF ~BothGripsHeld
                  THEN [NoPinchSeen EXCEPT !.nth = pinchSeen.nth,
                                           !.recorded = pinchStartDistance' # pinchStartDistance
                                                          \/ pinchSeen.recorded]
                  ELSE IF pinchSeen.active
                  THEN [pinchSeen EXCEPT !.recorded = pinchStartDistance' # pinchStartDistance
                                                        \/ pinchSeen.recorded]
                  ELSE [active |-> TRUE, scale |-> actorScale, dist |-> PollDistance,
                        nth |-> IF pinchSeen.nth = 0 THEN 1 ELSE 2,
                        recorded |-> pinchStartDistance' # pinchStartDistance
                                       \/ pinchSeen.recorded]
  /\ UNCHANGED <<modeVars, facadeVars, loopVars, actorPos, actorColor, inScene, deviceVars, controllers,
                 grabbedObject, pinchObject, isXRActive, triggerPressed, gripPressed,
                 grabStart, connected>>

\* ------------------------------------------------------------ frame loops

\* The camera's angles are counted in steps of viewMoveSpeed * 2 and kept
\* modulo a full turn, here of TurnSteps steps.
TurnSteps == 3

Turned(angle, delta) == (angle + delta + TurnSteps) % TurnSteps

\* What one run of updateViewPosition reads and writes.
View == [camera |-> camera, needsRender |-> FALSE, redraws |-> 0]

\* A held action that also redraws by itself.
HeldAction_Redraws(v, held, axis, delta) ==
  IF held
  THEN [v EXCEPT !.camera[axis] = Turned(@, delta), !.needsRender = TRUE, !.redraws = @ + 1]
  ELSE v

\* if (controllers.<hand>?.<flag>) { camera.<axis>(delta); needsRender = true }
HeldAction(v, held, axis, delta) ==
  IF held
  THEN [v EXCEPT !.camera[axis] = Turned(@, delta), !.needsRender = TRUE]
  ELSE v

updateViewPosition(v) ==
  LET v0 == [v EXCEPT !.needsRender = FALSE]
      v1 == HeldAction(v0, HandTrigger("left"), "elevation", 1)
      v2 == HeldAction(v1, HandTrigger("right"), "elevation", -1)
      v3 == HeldAction(v2, HandGrip("left"), "azimuth", 1)
      v4 == HeldAction(v3, HandGrip("right"), "azimuth", -1)
  IN  IF v4.needsRender THEN [v4 EXCEPT !.redraws = @ + 1] ELSE v4

\* The body of one animate callback, before it registers itself again.
animateBody(v) == IF isXRActive THEN updateViewPosition(v) ELSE v

RECURSIVE animateRuns(_, _)
animateRuns(k, v) == IF k = 0 THEN v ELSE animateRuns(k - 1, animateBody(v))

\* A display frame: every pending animate callback runs and registers itself
\* for the next frame.
animate ==
  /\ animatePending > 0
  /\ LET v == animateRuns(animatePending, View)
     IN  /\ camera' = v.camera
         /\ redraws' = v.redraws
  /\ animatePending' = animatePending
  /\ threw' = FALSE
  /\ lastEvent' = Event("animate", "-")
  /\ UNCHANGED <<modeVars, facadeVars, actorVars, deviceVars, managerVars, ghostVars,
                 isInitialized, highlightedActors, originalColor, beforeHighlight>>

\* The bound on the animate callbacks pending at a time.
MaxPending == 2

\* initialize() without the isInitialized check.
initialize_Again ==
  /\ animatePending < MaxPending
  /\ animatePending' = animatePending + 1
  /\ isInitialized' = TRUE
  /\ CommitRegistry(IF isXRActive
                    THEN SetupAll(Registry, {d \in AllDevices : Live(d)})
                    ELSE Registry)
  /\ redraws' = 0
  /\ threw' = FALSE
  /\ lastEvent' = Event("initialize", "-")
  /\ UNCHANGED <<modeVars, facadeVars, actorVars, ctrlPos, trig, grip, grabbedObject, pinchObject,
                 pinchStartDistance, initialScale, isXRActive, ghostVars,
                 camera, highlightedActors, originalColor, beforeHighlight>>

\* initialize(): the first call registers animate and, when a session is
\* already active, runs onSessionStarted on it; later calls return at once.
initialize ==
  /\ animatePending < MaxPending
  /\ animatePending' = IF isInitialized THEN animatePending ELSE animatePending + 1
  /\ isInitialized' = TRUE
  /\ CommitRegistry(IF ~isInitialized /\ isXRActive
                    THEN SetupAll(Registry, {d \in AllDevices : Live(d)})
                    ELSE Registry)
  /\ redraws' = 0
  /\ threw' = FALSE
  /\ lastEvent' = Event("initialize", "-")
  /\ UNCHANGED <<modeVars, facadeVars, actorVars, ctrlPos, trig, grip, grabbedObject, pinchObject,
                 pinchStartDistance, initialScale, isXRActive, ghostVars,
                 camera, highlightedActors, originalColor, beforeHighlight>>

HighlightColor == <<10, 8, 2>>

\* What laserLoop reads and writes.
Laser == [actorColor |-> actorColor, originalColor |-> originalColor,
          highlightedActors |-> highlightedActors, redraws |-> 0]

\* highlightActor that never puts the saved colour back
highlightActor_NeverRestores(l, highlight) ==
  LET l1 == IF highlight
            THEN [l EXCEPT !.originalColor = IF @ = "null" THEN l.actorColor ELSE @,
                           !.actorColor = HighlightColor]
            ELSE l
  IN  [l1 EXCEPT !.redraws = @ + 1]

\* highlightActor(actor, highlight)
highlightActor(l, highlight) ==
  LET l1 == IF highlight
            THEN [l EXCEPT !.originalColor = IF @ = "null" THEN l.actorColor ELSE @,
                           !.actorColor = HighlightColor]
            ELSE IF l.originalColor # "null"
            THEN [l EXCEPT !.actorColor = l.originalColor]
            ELSE l
  IN  [l1 EXCEPT !.redraws = @ + 1]

\* checkRayIntersection(controller) finds the actor: its centre is less than
\* 2.0 from the controller (compared by the squares).
checkRayIntersection(d) ==
  LET dx == actorPos[1] - ctrlPos[d][1]
      dy == actorPos[2] - ctrlPos[d][2]
      dz == actorPos[3] - ctrlPos[d][3]
  IN  dx * dx + dy * dy + dz * dz < 2 * 2

\* laserLoop's step for one hand
laserHand(l, hand) ==
  IF Slot(hand) = "null" THEN l
  ELSE IF checkRayIntersection(Slot(hand))
  THEN IF ~l.highlightedActors[hand]
       THEN [highlightActor(l, TRUE) EXCEPT !.highlightedActors[hand] = TRUE]
       ELSE l
  ELSE IF l.highlightedActors[hand]
  THEN [highlightActor(l, FALSE) EXCEPT !.highlightedActors[hand] = FALSE]
  ELSE l

\* One run of laserLoop.
laserLoop ==
  /\ LET l == IF ~isXRActive THEN Laser
              ELSE laserHand(laserHand(Laser, "left"), "right")
     IN  /\ actorColor' = l.actorColor
         /\ originalColor' = l.originalColor
         /\ beforeHighlight' = IF \E h \in Hands : ~highlightedActors[h] /\ l.highlightedActors[h]
                               THEN actorColor ELSE beforeHighlight
         /\ highlightedActors' = l.highlightedActors
         /\ redraws' = l.redraws
  /\ threw' = FALSE
  /\ lastEvent' = Event("laserLoop", "-")
  /\ UNCHANGED <<modeVars, facadeVars, actorPos, actorScale, inScene, deviceVars, managerVars,
                 ghostVars, camera, isInitialized, animatePending>>

\* ------------------------------------------------------------ haptic feedback

\* The devices whose controller object carries a pulse function.
PulseDevices == {"R1"}

\* The connected callback setupVRInteractions hands to the XR helper: it adds
\* a selectstart and a squeezestart listener to the controller.
hapticConnectedCallback(d) ==
  /\ listening[d] = 0
  /\ listening' = [listening EXCEPT ![d] = 1]
  /\ redraws' = 0
  /\ threw' = FALSE
  /\ lastEvent' = Event("connected", d)
  /\ UNCHANGED <<modeVars, facadeVars, loopVars, actorVars, ctrlPos, trig, grip, managerVars,
                 ghostVars>>

\* controller.pulse(0.5, 50) raises a TypeError when the controller has no
\* pulse function.
pulse(d) == d \notin PulseDevices

\* The selectstart listener: controller.pulse(0.5, 50).
pulseOnSelectstart(d) ==
  /\ listening[d] > 0
  /\ ~trig[d]
  /\ trig' = [trig EXCEPT ![d] = TRUE]
  /\ threw' = pulse(d)
  /\ redraws' = 0
  /\ lastEvent' = Event("selectstart", d)
  /\ UNCHANGED <<modeVars, facadeVars, loopVars, actorVars, ctrlPos, grip, listening, managerVars,
                 ghostVars>>

\* The squeezestart listener: controller.pulse(0.5, 50).
pulseOnSqueezestart(d) ==
  /\ listening[d] > 0
  /\ ~grip[d]
  /\ grip' = [grip EXCEPT ![d] = TRUE]
  /\ threw' = pulse(d)
  /\ redraws' = 0
  /\ lastEvent' = Event("squeezestart", d)
  /\ UNCHANGED <<modeVars, facadeVars, loopVars, actorVars, ctrlPos, trig, listening, managerVars,
                 ghostVars>>

\* The trigger or the grip is let go; no listener of setupVRInteractions runs.
released(d, t) ==
  /\ listening[d] > 0
  /\ \/ t = "selectend" /\ trig[d] /\ trig' = [trig EXCEPT ![d] = FALSE] /\ UNCHANGED grip
     \/ t = "squeezeend" /\ grip[d] /\ grip' = [grip EXCEPT ![d] = FALSE] /\ UNCHANGED trig
  /\ threw' = FALSE
  /\ redraws' = 0
  /\ lastEvent' = Event(t, d)
  /\ UNCHANGED <<modeVars, facadeVars, loopVars, actorVars, ctrlPos, listening, managerVars,
                 ghostVars>>

\* ------------------------------------------------------------ actor facade

\* actor.userData before anything is stored: every field undefined.
NoUserData ==
  [exists |-> FALSE,
   initialPosition |-> [def |-> FALSE, v |-> Origin],
   initialScale |-> [kind |-> "undefined", v |-> One],
   initialRotation |-> [def |-> FALSE, v |-> 0],
   grabbing |-> FALSE, pinching |-> FALSE,
   startPosition |-> Origin, objectStartPosition |-> Origin]

NotCaptured == [done |-> FALSE, position |-> Origin, scale |-> One, rotation |-> 0]

\* setupTwoHandedInteraction's controllers: both entries null, no interaction.
NoHand == [present |-> FALSE, position |-> Origin, gripping |-> FALSE]

NoTwoHanded ==
  [left |-> NoHand, right |-> NoHand, twoHandedInteraction |-> FALSE,
   initialDistance |-> 0, initialObjectScale |-> One, initialVector |-> Origin]

\* What the callback-style handlers and the facade leave alone.
facadeFrame ==
  UNCHANGED <<modeVars, loopVars, actorColor, inScene, trig, grip, managerVars,
              ghostVars, th, attached, interactorStyle, connectedCallback,
              files, vrButton>>

\* makeActorInteractive(actor, ...): userData is replaced by the initial state.
makeActorInteractive ==
  /\ ~captured.done
  /\ userData' = [NoUserData EXCEPT
                    !.exists = TRUE,
                    !.initialPosition = [def |-> TRUE, v |-> actorPos],
                    !.initialScale = [kind |-> "array", v |-> actorScale],
                    !.initialRotation = [def |-> TRUE, v |-> actorRot]]
  /\ captured' = [done |-> TRUE, position |-> actorPos, scale |-> actorScale,
                  rotation |-> actorRot]
  /\ redraws' = 0
  /\ threw' = FALSE
  /\ lastEvent' = Event("makeActorInteractive", "-")
  /\ UNCHANGED <<actorPos, actorScale, actorRot, ctrlPos, listening>>
  /\ facadeFrame

\* actor.reset(): each spread of a value that is not an array raises a
\* TypeError and ends the call there.
reset ==
  /\ lastEvent' = Event("reset", "-")
  /\ IF ~userData.exists \/ ~userData.initialPosition.def
     THEN /\ threw' = TRUE
          /\ redraws' = 0
          /\ UNCHANGED <<actorPos, actorScale, actorRot>>
     ELSE /\ actorPos' = userData.initialPosition.v
          /\ IF userData.initialScale.kind # "array"
             THEN /\ threw' = TRUE
                  /\ redraws' = 0
                  /\ UNCHANGED <<actorScale, actorRot>>
             ELSE /\ actorScale' = userData.initialScale.v
                  /\ IF ~userData.initialRotation.def
                     THEN /\ threw' = TRUE
                          /\ redraws' = 0
                          /\ UNCHANGED actorRot
                     ELSE /\ actorRot' = userData.initialRotation.v
                          /\ threw' = FALSE
                          /\ redraws' = 1
  /\ UNCHANGED <<userData, captured, ctrlPos, listening>>
  /\ facadeFrame

\* The connected callback of the callback-style setupVRInteractions: four
\* listeners are added to the controller.
vrConnectedCallback(d) ==
  /\ listening[d] = 0
  /\ listening' = [listening EXCEPT ![d] = 1]
  /\ redraws' = 0
  /\ threw' = FALSE
  /\ lastEvent' = Event("connected", d)
  /\ UNCHANGED <<actorPos, actorScale, actorRot, userData, captured, ctrlPos>>
  /\ facadeFrame

\* The selectstart listener: userData is replaced by the grab's record.
vrSelectstart(d) ==
  /\ listening[d] > 0
  /\ userData' = [NoUserData EXCEPT !.exists = TRUE,
                                    !.grabbing = TRUE,
                                    !.startPosition = ctrlPos[d],
                                    !.objectStartPosition = actorPos]
  /\ redraws' = 0
  /\ threw' = FALSE
  /\ lastEvent' = Event("selectstart", d)
  /\ UNCHANGED <<actorPos, actorScale, actorRot, captured, ctrlPos, listening>>
  /\ facadeFrame

vrSelectend(d) ==
  /\ listening[d] > 0
  /\ userData' = IF userData.exists /\ userData.grabbing
                 THEN [userData EXCEPT !.grabbing = FALSE]
                 ELSE userData
  /\ redraws' = 0
  /\ threw' = FALSE
  /\ lastEvent' = Event("selectend", d)
  /\ UNCHANGED <<actorPos, actorScale, actorRot, captured, ctrlPos, listening>>
  /\ facadeFrame

\* The pinchstart listener: userData keeps its fields and gets pinching and
\* initialScale, the latter a number (getScale()[0]).
vrPinchstart(d) ==
  /\ listening[d] > 0
  /\ userData' = [userData EXCEPT !.exists = TRUE,
                                  !.pinching = TRUE,
                                  !.initialScale = [kind |-> "number", v |-> actorScale]]
  /\ redraws' = 0
  /\ threw' = FALSE
  /\ lastEvent' = Event("pinchstart", d)
  /\ UNCHANGED <<actorPos, actorScale, actorRot, captured, ctrlPos, listening>>
  /\ facadeFrame

vrPinchend(d) ==
  /\ listening[d] > 0
  /\ userData' = IF userData.exists THEN [userData EXCEPT !.pinching = FALSE]
                 ELSE userData
  /\ redraws' = 0
  /\ threw' = FALSE
  /\ lastEvent' = Event("pinchend", d)
  /\ UNCHANGED <<actorPos, actorScale, actorRot, captured, ctrlPos, listening>>
  /\ facadeFrame

\* The values controller.pinchScale || 1.0 can take.
PinchScales == {<<1, 1>>, <<2, 1>>, <<1, 2>>}

\* The moved callback: the controller is at p and reports pinchScale ps.
vrMovedCallback(d, p, ps) ==
  /\ listening[d] > 0
  /\ ctrlPos' = [ctrlPos EXCEPT ![d] = p]
  /\ actorPos' = IF userData.exists /\ userData.grabbing
                 THEN Add3(userData.objectStartPosition, Sub3(p, userData.startPosition))
                 ELSE actorPos
  /\ actorScale' = IF userData.exists /\ userData.pinching
                   THEN Mul(userData.initialScale.v, ps)
                   ELSE actorScale
  /\ PosInBounds(actorPos')
  /\ InBounds(actorScale')
  /\ redraws' = 0
  /\ threw' = FALSE
  /\ lastEvent' = Event("moved", d)
  /\ UNCHANGED <<actorRot, userData, captured, listening>>
  /\ facadeFrame

\* ------------------------------------------------------------ two-handed transform

\* What processControllers reads and writes.
TwoHanded == [th |-> th, actorScale |-> actorScale, actorRot |-> actorRot]

\* Math.atan2(v[0], v[2]) * (180 / Math.PI), in hundredths of a degree, on
\* the vectors between two of the model's positions.
AngleY(v) ==
  CASE v[1] = 0 /\ v[3] >= 0 -> 0
    [] v[1] = 0 /\ v[3] < 0 -> 18000
    [] v[1] > 0 /\ v[3] = 0 -> 9000
    [] v[1] < 0 /\ v[3] = 0 -> -9000
    [] v[1] = 3 /\ v[3] = -4 -> 14313
    [] v[1] = -3 /\ v[3] = 4 -> -3687

\* processControllers without the test that both controllers are gripping.
processControllers_NoGripCheck(t) ==
  IF ~t.th.left.present \/ ~t.th.right.present THEN t
  ELSE LET leftPos == t.th.left.position
           rightPos == t.th.right.position
           currentDistance == Distance(leftPos, rightPos)
       IN  IF t.th.twoHandedInteraction
           THEN [t EXCEPT !.actorScale = Mul(t.th.initialObjectScale,
                                             Norm(currentDistance, t.th.initialDistance)),
                          !.actorRot = AngleY(Sub3(rightPos, leftPos))
                                         - AngleY(t.th.initialVector)]
           ELSE [t EXCEPT !.th.twoHandedInteraction = TRUE,
                          !.th.initialDistance = currentDistance,
                          !.th.initialObjectScale = t.actorScale,
                          !.th.initialVector = Sub3(rightPos, leftPos)]

processControllers(t) ==
  IF ~t.th.left.present \/ ~t.th.right.present THEN t
  ELSE IF t.th.left.gripping /\ t.th.right.gripping
  THEN LET leftPos == t.th.left.position
           rightPos == t.th.right.position
           currentDistance == Distance(leftPos, rightPos)
       IN  IF t.th.twoHandedInteraction
           THEN [t EXCEPT !.actorScale = Mul(t.th.initialObjectScale,
                                             Norm(currentDistance, t.th.initialDistance)),
                          !.actorRot = AngleY(Sub3(rightPos, leftPos))
                                         - AngleY(t.th.initialVector)]
           ELSE [t EXCEPT !.th.twoHandedInteraction = TRUE,
                          !.th.initialDistance = currentDistance,
                          !.th.initialObjectScale = t.actorScale,
                          !.th.initialVector = Sub3(rightPos, leftPos)]
  ELSE [t EXCEPT !.th.twoHandedInteraction = FALSE]

\* The handler's result becomes the next state; the handlers draw nothing.
CommitTwoHanded(t) ==
  /\ th' = t.th
  /\ actorScale' = t.actorScale
  /\ actorRot' = t.actorRot
  /\ InBounds(t.actorScale)
  /\ redraws' = 0
  /\ threw' = FALSE

\* What the two-handed handlers leave alone.
twoHandedFrame ==
  UNCHANGED <<modeVars, loopVars, actorPos, actorColor, inScene, trig, managerVars,
              ghostVars, userData, captured, attached, interactorStyle,
              connectedCallback, files, vrButton>>

\* A k-times added listener runs k times.
RECURSIVE Repeat(_, _, _, _)
Repeat(k, t, d, on) ==
  IF k = 0 THEN t
  ELSE LET hand == handedness(d)
           t1 == IF t.th[hand].present
                 THEN [t EXCEPT !.th[hand].gripping = on]
                 ELSE t
           t2 == IF on THEN processControllers(t1)
                 ELSE [t1 EXCEPT !.th.twoHandedInteraction = FALSE]
       IN  Repeat(k - 1, t2, d, on)

\* The connected callback: the hand's entry is replaced, not gripping, and
\* the grip listeners are added to the controller.
twoHandedConnectedCallback(d) ==
  /\ listening[d] < MaxListeners
  /\ listening' = [listening EXCEPT ![d] = @ + 1]
  /\ CommitTwoHanded([TwoHanded EXCEPT !.th[handedness(d)] =
                        [present |-> TRUE, position |-> ctrlPos[d], gripping |-> FALSE]])
  /\ lastEvent' = Event("connected", d)
  /\ UNCHANGED <<ctrlPos, grip>>
  /\ twoHandedFrame

gripstart(d) ==
  /\ listening[d] > 0
  /\ ~grip[d]
  /\ grip' = [grip EXCEPT ![d] = TRUE]
  /\ CommitTwoHanded(Repeat(listening[d], TwoHanded, d, TRUE))
  /\ lastEvent' = Event("gripstart", d)
  /\ UNCHANGED <<ctrlPos, listening>>
  /\ twoHandedFrame

gripend(d) ==
  /\ listening[d] > 0
  /\ grip[d]
  /\ grip' = [grip EXCEPT ![d] = FALSE]
  /\ CommitTwoHanded(Repeat(listening[d], TwoHanded, d, FALSE))
  /\ lastEvent' = Event("gripend", d)
  /\ UNCHANGED <<ctrlPos, listening>>
  /\ twoHandedFrame

\* The moved callback: the hand's position is refreshed, and the transform is
\* processed while an interaction is on.
twoHandedMovedCallback(d, p) ==
  /\ ctrlPos' = [ctrlPos EXCEPT ![d] = p]
  /\ LET hand == handedness(d)
         t1 == IF th[hand].present
               THEN [TwoHanded EXCEPT !.th[hand].position = p]
               ELSE TwoHanded
     IN  CommitTwoHanded(IF t1.th.twoHandedInteraction THEN processControllers(t1) ELSE t1)
  /\ lastEvent' = Event("moved", d)
  /\ UNCHANGED <<grip, listening>>
  /\ twoHandedFrame

\* ------------------------------------------------------------ page wiring

\* setupStandardInteractions(renderer, renderWindow, {primary: actor}), which
\* the page calls once after setupInteractionModes: a new style is made and
\* set on the interactor.
setupStandardInteractions ==
  /\ interactorStyle = "modes"
  /\ interactorStyle' = "standard"
  /\ redraws' = 0
  /\ threw' = FALSE
  /\ lastEvent' = Event("setupStandardInteractions", "-")
  /\ UNCHANGED <<modeVars, loopVars, actorVars, deviceVars, managerVars, ghostVars,
                 actorRot, userData, captured, th, attached, connectedCallback,
                 files, vrButton>>

\* The vertical listener of the standard style's range manipulator.
standardScaleListener(tenths) ==
  /\ interactorStyle = "standard"
  /\ actorScale' = Norm(tenths, 10)
  /\ redraws' = 1
  /\ threw' = FALSE
  /\ lastEvent' = Event("drag", "-")
  /\ UNCHANGED <<modeVars, facadeVars, loopVars, actorPos, actorColor, inScene, deviceVars,
                 managerVars, ghostVars>>

\* ------------------------------------------------------------ page controls

\* The files a user can pick.
FileNames == {"A", "B", "C"}

\* No read in flight, nothing given to the mapper, nothing selected yet.
NoFiles == [reading |-> {}, mapperInput |-> "none", selected |-> "none"]

\* What the page leaves alone besides its own two controls.
pageFrame ==
  UNCHANGED <<modeVars, loopVars, deviceVars, managerVars, ghostVars,
              actorRot, userData, captured, th, attached, interactorStyle,
              connectedCallback>>

\* handleFile(e) up to readAsArrayBuffer: a FileReader of its own begins to
\* read the file.
readAsArrayBuffer(f) ==
  /\ f \notin files.reading
  /\ files' = [files EXCEPT !.reading = @ \cup {f}, !.selected = f]
  /\ redraws' = 0
  /\ threw' = FALSE
  /\ lastEvent' = Event("change", "-")
  /\ UNCHANGED <<actorVars, vrButton>>
  /\ pageFrame

\* fileReader.onload of the reader of f: the result is parsed and given to
\* the mapper, the actor is added, the window is rendered.
onLoad(f) ==
  /\ f \in files.reading
  /\ files' = [files EXCEPT !.reading = @ \ {f}, !.mapperInput = f]
  /\ inScene' = TRUE
  /\ redraws' = 1
  /\ threw' = FALSE
  /\ lastEvent' = Event("load", "-")
  /\ UNCHANGED <<actorPos, actorScale, actorColor, vrButton>>
  /\ pageFrame

\* The button as the page shows it first, with no XR session; lastCall is
\* the entry point of the XR helper the last click called.
NewButton == [textContent |-> "Send To VR", session |-> "none", lastCall |-> "none"]

\* The click listener of vrbutton.
vrbuttonClick ==
  /\ vrButton' = IF vrButton.textContent = "Send To VR"
                 THEN [textContent |-> "Return From VR", session |-> "starting",
                       lastCall |-> "startXR"]
                 ELSE [textContent |-> "Send To VR", session |-> "none",
                       lastCall |-> "stopXR"]
  /\ redraws' = 0
  /\ threw' = FALSE
  /\ lastEvent' = Event("click", "-")
  /\ UNCHANGED <<actorVars, files>>
  /\ pageFrame

\* The session requested by startXR begins.
xrSessionBegins ==
  /\ vrButton.session = "starting"
  /\ vrButton' = [vrButton EXCEPT !.session = "active"]
  /\ redraws' = 0
  /\ threw' = FALSE
  /\ lastEvent' = Event("sessionstart", "-")
  /\ UNCHANGED <<actorVars, files>>
  /\ pageFrame

\* The session ends, or fails to begin, without a click on the button: the
\* user leaves VR on the headset, or the device goes away.
xrSessionEnds ==
  /\ vrButton.session \in {"starting", "active"}
  /\ vrButton' = [vrButton EXCEPT !.session = "none"]
  /\ redraws' = 0
  /\ threw' = FALSE
  /\ lastEvent' = Event("sessionend", "-")
  /\ UNCHANGED <<actorVars, files>>
  /\ pageFrame

\* ------------------------------------------------------------ VR set-up

\* setupVRInteractions of interactions.js on an XR helper that keeps one
\* controller-connected callback: controllerManager.initialize() sets the
\* manager's onControllerConnected, then setControllerConnectedCallback is
\* called again with the haptic callback.
setupVRInteractions ==
  /\ connectedCallback = "none"
  /\ connectedCallback' = "haptic"
  /\ redraws' = 0
  /\ threw' = FALSE
  /\ lastEvent' = Event("setupVRInteractions", "-")
  /\ UNCHANGED <<modeVars, loopVars, actorVars, deviceVars, managerVars, ghostVars,
                 actorRot, userData, captured, th, attached, interactorStyle,
                 files, vrButton>>

\* The XR helper reports a connected controller to the callback it holds.
controllerConnectedEvent(d) ==
  /\ connectedCallback # "none"
  /\ IF connectedCallback = "onControllerConnected"
     THEN onControllerConnected(d)
     ELSE hapticConnectedCallback(d)

\* ------------------------------------------------------------ recognizer setup

\* The recognizers the page can attach to the controllers.
Recognizers == {"events", "polls", "twoHanded"}

\* The page sets one recognizer up: new VRControllerManager(...) of the
\* event-driven or of the polling module, or setupTwoHandedInteraction(...).
attach(r) ==
  /\ attached = "none"
  /\ attached' = r
  /\ redraws' = 0
  /\ threw' = FALSE
  /\ lastEvent' = Event("setup", "-")
  /\ UNCHANGED <<modeVars, loopVars, actorVars, deviceVars, managerVars, ghostVars,
                 actorRot, userData, captured, th, interactorStyle, connectedCallback,
                 files, vrButton>>

\* ------------------------------------------------------------ initial state

NoSession == [active |-> FALSE, dev |-> "-", actor |-> Origin, ctrl |-> Origin,
              color |-> White, endedBy |-> "-"]

Init ==
  /\ bound = InitialStyle.bound
  /\ button = InitialStyle.button
  /\ currentMode = "rotate"
  /\ actorPos = Origin
  /\ actorScale = One
  /\ actorColor = White
  /\ inScene = FALSE
  /\ ctrlPos = [d \in AllDevices |-> Origin]
  /\ trig = [d \in AllDevices |-> FALSE]
  /\ grip = [d \in AllDevices |-> FALSE]
  /\ listening = [d \in AllDevices |-> 0]
  /\ controllers = [h \in Hands |-> "null"]
  /\ grabbedObject = NoGrab
  /\ pinchObject = NoPinch
  /\ pinchStartDistance = 0
  /\ initialScale = One
  /\ isXRActive = FALSE
  /\ triggerPressed = [d \in AllDevices |-> FALSE]
  /\ gripPressed = [d \in AllDevices |-> FALSE]
  /\ redraws = 1
  /\ threw = FALSE
  /\ lastEvent = Event("setMode", "-")
  /\ grabStart = NoSession
  /\ pinchSeen = NoPinchSeen
  /\ connected = [h \in Hands |-> <<>>]
  /\ camera = [elevation |-> 0, azimuth |-> 0]
  /\ isInitialized = FALSE
  /\ animatePending = 0
  /\ highlightedActors = [h \in Hands |-> FALSE]
  /\ originalColor = "null"
  /\ beforeHighlight = White
  /\ actorRot = 0
  /\ userData = NoUserData
  /\ captured = NotCaptured
  /\ th = NoTwoHanded
  /\ attached = "none"
  /\ interactorStyle = "modes"
  /\ connectedCallback = "none"
  /\ files = NoFiles
  /\ vrButton = NewButton

\* ------------------------------------------------------------ specifications

NextModes ==
  \/ \E mode \in ModeInputs : setMode(mode)
  \/ \E tenths \in ScaleRangeMin..ScaleRangeMax : ScaleListener(tenths)

SpecModes == Init /\ [][NextModes]_vars

\* The event-driven manager under the trigger events of two controllers.
NextGrab ==
  \/ handleFile
  \/ \E d \in Devices : onControllerConnected(d)
  \/ \E d \in Devices : onControllerDisconnected(d)
  \/ \E d \in Devices, p \in Positions : onControllerMoved(d, p)
  \/ \E d \in Devices : selectstart(d)
  \/ \E d \in Devices : selectend(d)

SpecGrab == Init /\ [][NextGrab]_vars

\* The event-driven manager under the grip events of two controllers.
NextPinch ==
  \/ handleFile
  \/ \E d \in Devices : onControllerConnected(d)
  \/ \E d \in Devices : onControllerDisconnected(d)
  \/ \E d \in Devices, p \in Positions : onControllerMoved(d, p)
  \/ \E d \in Devices : squeezestart(d)
  \/ \E d \in Devices : squeezeend(d)

SpecPinch == Init /\ [][NextPinch]_vars

\* The event-driven manager with one controller that connects and stays
\* connected, and only its trigger events.
NextSolo ==
  \/ handleFile
  \/ onControllerConnected("L1")
  \/ \E p \in Positions : onControllerMoved("L1", p)
  \/ selectstart("L1")
  \/ selectend("L1")

SpecSolo == Init /\ [][NextSolo]_vars

\* The polling manager: the grab loop under the trigger events.
NextPollGrab ==
  \/ \E present \in SUBSET Devices : onSessionStarted(present)
  \/ onSessionEnded
  \/ \E added, removed \in SUBSET Devices : handleInputSourcesChange(added, removed)
  \/ \E d \in Devices : triggerPressedListener(d)
  \/ \E d \in Devices : triggerReleasedListener(d)
  \/ \E d \in Devices, p \in Positions : getWorldPosition(d, p)
  \/ updateGrab

SpecPollGrab == Init /\ [][NextPollGrab]_vars

\* The polling manager: the pinch loop under the grip events.
NextPollPinch ==
  \/ \E present \in SUBSET Devices : onSessionStarted(present)
  \/ onSessionEnded
  \/ \E added, removed \in SUBSET Devices : handleInputSourcesChange(added, removed)
  \/ \E d \in Devices : gripPressedListener(d)
  \/ \E d \in Devices : gripReleasedListener(d)
  \/ \E d \in Devices, p \in Positions : getWorldPosition(d, p)
  \/ updatePinchScale

SpecPollPinch == Init /\ [][NextPollPinch]_vars

\* The pinch loop with the controllers on a line, one unit apart: the
\* distances between them are 0, 1 and 2.
LinePositions == {<<0, 0, 0>>, <<1, 0, 0>>, <<2, 0, 0>>}

NextPinchLine ==
  \/ \E present \in SUBSET Devices : onSessionStarted(present)
  \/ \E added, removed \in SUBSET Devices : handleInputSourcesChange(added, removed)
  \/ \E d \in Devices : gripPressedListener(d)
  \/ \E d \in Devices : gripReleasedListener(d)
  \/ \E d \in Devices, p \in LinePositions : getWorldPosition(d, p)
  \/ updatePinchScale

SpecPinchLine == Init /\ [][NextPinchLine]_vars

\* The event-driven manager's registry under three devices, two of them
\* left-hand ones.
NextRegistry ==
  \/ \E d \in AllDevices : onControllerConnected(d)
  \/ \E d \in AllDevices : onControllerDisconnected(d)
  \/ \E d \in AllDevices, p \in Positions : onControllerMoved(d, p)

SpecRegistry == Init /\ [][NextRegistry]_vars

\* The polling manager's view loop under the trigger and grip events.
NextView ==
  \/ initialize
  \/ \E present \in SUBSET Devices : onSessionStarted(present)
  \/ onSessionEnded
  \/ \E added, removed \in SUBSET Devices : handleInputSourcesChange(added, removed)
  \/ \E d \in Devices : triggerPressedListener(d)
  \/ \E d \in Devices : triggerReleasedListener(d)
  \/ \E d \in Devices : gripPressedListener(d)
  \/ \E d \in Devices : gripReleasedListener(d)
  \/ animate

SpecView == Init /\ [][NextView]_vars

\* The browser runs the registered frame callbacks at every display frame.
SpecViewFair == SpecView /\ WF_vars(animate)

\* The polling manager with its four frame loops: view, pinch, grab, laser.
\* Sessions start with both controllers present and keep them.
NextLoops ==
  \/ initialize
  \/ onSessionStarted(Devices)
  \/ onSessionEnded
  \/ triggerPressedListener("R1")
  \/ triggerReleasedListener("R1")
  \/ gripPressedListener("L1")
  \/ gripReleasedListener("L1")
  \/ \E p \in NearFar : getWorldPosition("R1", p)
  \/ animate
  \/ updatePinchScale
  \/ updateGrab
  \/ laserLoop

SpecLoops == Init /\ [][NextLoops]_vars

\* The button listeners of setupVRInteractions (interactions.js) on two
\* controllers, one with a pulse function and one without.
NextHaptic ==
  \/ \E d \in Devices : hapticConnectedCallback(d)
  \/ \E d \in Devices : pulseOnSelectstart(d)
  \/ \E d \in Devices : pulseOnSqueezestart(d)
  \/ \E d \in Devices, t \in {"selectend", "squeezeend"} : released(d, t)
  \/ \E d \in Devices, p \in Positions : getWorldPosition(d, p)

SpecHaptic == Init /\ [][NextHaptic]_vars

\* The actor facade with the callback-style VR handlers of interactions-js.js.
NextFacade ==
  \/ makeActorInteractive
  \/ reset
  \/ vrConnectedCallback("R1")
  \/ vrSelectstart("R1")
  \/ vrSelectend("R1")
  \/ vrPinchstart("R1")
  \/ vrPinchend("R1")
  \/ \E p \in NearFar, ps \in PinchScales : vrMovedCallback("R1", p, ps)

SpecFacade == Init /\ [][NextFacade]_vars

\* The polling manager's laser loop with one controller, the right one; the
\* grab loop moves the actor.
NextLaserSolo ==
  \/ \E present \in SUBSET {"R1"} : onSessionStarted(present)
  \/ onSessionEnded
  \/ \E added, removed \in SUBSET {"R1"} : handleInputSourcesChange(added, removed)
  \/ triggerPressedListener("R1")
  \/ triggerReleasedListener("R1")
  \/ \E p \in Positions : getWorldPosition("R1", p)
  \/ updateGrab
  \/ laserLoop

SpecLaserSolo == Init /\ [][NextLaserSolo]_vars

\* The polling manager's laser loop with two controllers.
NextLaser ==
  \/ \E present \in SUBSET Devices : onSessionStarted(present)
  \/ onSessionEnded
  \/ \E added, removed \in SUBSET Devices : handleInputSourcesChange(added, removed)
  \/ \E d \in Devices, p \in Positions : getWorldPosition(d, p)
  \/ laserLoop

SpecLaser == Init /\ [][NextLaser]_vars

\* The event-driven manager with one controller, its trigger events and the
\* colour selector of the page.
NextSoloColor ==
  \/ handleFile
  \/ onControllerConnected("L1")
  \/ onControllerDisconnected("L1")
  \/ \E p \in Positions : onControllerMoved("L1", p)
  \/ selectstart("L1")
  \/ selectend("L1")
  \/ \E c \in SelectorColors : colorSelectorChange(c)

SpecSoloColor == Init /\ [][NextSoloColor]_vars

\* setupTwoHandedInteraction under the grip and moved events of two
\* controllers.
NextTwoHanded ==
  \/ \E d \in Devices : twoHandedConnectedCallback(d)
  \/ \E d \in Devices : gripstart(d)
  \/ \E d \in Devices : gripend(d)
  \/ \E d \in Devices, p \in Positions : twoHandedMovedCallback(d, p)

SpecTwoHanded == Init /\ [][NextTwoHanded]_vars

\* The three gesture recognizers, one of which the page attaches to the
\* controllers: the event-driven manager, the polling manager's grab and
\* pinch loops, or the two-handed transform, each under its own events.
\* The right controller is the one that moves and whose trigger is used.
NextRecognizers ==
  \/ \E r \in Recognizers : attach(r)
  \/ attached = "events" /\ handleFile
  \/ attached = "events" /\ \E d \in Devices : onControllerConnected(d)
  \/ attached = "events" /\ \E p \in NearFar : onControllerMoved("R1", p)
  \/ attached = "events" /\ selectstart("R1")
  \/ attached = "events" /\ selectend("R1")
  \/ attached = "events" /\ squeezestart("L1")
  \/ attached = "events" /\ squeezeend("L1")
  \/ attached = "polls" /\ onSessionStarted(Devices)
  \/ attached = "polls" /\ onSessionEnded
  \/ attached = "polls" /\ triggerPressedListener("R1")
  \/ attached = "polls" /\ triggerReleasedListener("R1")
  \/ attached = "polls" /\ \E d \in Devices : gripPressedListener(d)
  \/ attached = "polls" /\ \E d \in Devices : gripReleasedListener(d)
  \/ attached = "polls" /\ \E p \in NearFar : getWorldPosition("R1", p)
  \/ attached = "polls" /\ updateGrab
  \/ attached = "polls" /\ updatePinchScale
  \/ attached = "twoHanded" /\ \E d \in Devices : twoHandedConnectedCallback(d)
  \/ attached = "twoHanded" /\ \E d \in Devices : gripstart(d)
  \/ attached = "twoHanded" /\ \E d \in Devices : gripend(d)
  \/ attached = "twoHanded" /\ \E p \in Positions : twoHandedMovedCallback("R1", p)

SpecRecognizers == Init /\ [][NextRecognizers]_vars

\* The laser loop with the right controller alone and the page's colour
\* selector.
NextLaserColor ==
  \/ onSessionStarted({"R1"})
  \/ onSessionEnded
  \/ \E p \in Positions : getWorldPosition("R1", p)
  \/ laserLoop
  \/ \E c \in SelectorColors : colorSelectorChange(c)

SpecLaserColor == Init /\ [][NextLaserColor]_vars

\* The polling manager's grab and pinch loops over several XR sessions; the
\* right controller is the one that moves and whose trigger is used.
NextSessions ==
  \/ \E present \in SUBSET Devices : onSessionStarted(present)
  \/ onSessionEnded
  \/ triggerPressedListener("R1")
  \/ triggerReleasedListener("R1")
  \/ \E d \in Devices : gripPressedListener(d)
  \/ \E d \in Devices : gripReleasedListener(d)
  \/ \E p \in NearFar : getWorldPosition("R1", p)
  \/ updateGrab
  \/ updatePinchScale

SpecSessions == Init /\ [][NextSessions]_vars

\* The page after setupInteractionModes: setupStandardInteractions runs, then
\* the user selects modes and drags.
NextWiring ==
  \/ setupStandardInteractions
  \/ interactorStyle = "standard" /\ \E mode \in ModeInputs : setMode(mode)
  \/ \E tenths \in ScaleRangeMin..ScaleRangeMax : standardScaleListener(tenths)

SpecWiring == Init /\ [][NextWiring]_vars

\* The page after setupVRInteractions of interactions.js: controllers
\* connect, move and use their triggers and grips.
NextVRSetup ==
  \/ setupVRInteractions
  \/ handleFile
  \/ \E d \in Devices : controllerConnectedEvent(d)
  \/ \E d \in Devices, p \in NearFar : onControllerMoved(d, p)
  \/ \E d \in Devices : pulseOnSelectstart(d)
  \/ \E d \in Devices : pulseOnSqueezestart(d)
  \/ \E d \in Devices, t \in {"selectend", "squeezeend"} : released(d, t)

SpecVRSetup == Init /\ [][NextVRSetup]_vars

\* The page's controls: the file input, the VR button and the colour
\* selector.
NextPage ==
  \/ \E f \in FileNames : readAsArrayBuffer(f)
  \/ \E f \in FileNames : onLoad(f)
  \/ vrbuttonClick
  \/ xrSessionBegins
  \/ xrSessionEnds
  \/ \E c \in SelectorColors : colorSelectorChange(c)

SpecPage == Init /\ [][NextPage]_vars

\* ------------------------------------------------------------ claims

\* The bindings in effect: which manipulator is bound on which button.
Bindings == {<<bound[i], button[bound[i]]>> : i \in 1..Len(bound)}

RotateBindings == {<<"rotateManipulator", 1>>, <<"panManipulator", 2>>,
                   <<"zoomManipulator", 3>>}

\* C1: after any sequence of setMode calls over the four modes that ends with
\* setMode('rotate'), the bound manipulators are exactly rotate on button 1,
\* pan on button 2 and zoom on button 3.
C1_RotateRestored ==
  (lastEvent.type = "setMode" /\ currentMode = "rotate") => Bindings = RotateBindings

\* The owning controller's displacement since the trigger went down, added
\* to where the actor was then.
FollowsDisplacement(pos, d) == Add3(grabStart.actor, Sub3(pos[d], grabStart.ctrl))

\* C2: when the controller that owns the active grab is disconnected, the
\* disconnect handler leaves grabbedObject null and the hand's slot empty and
\* raises nothing; moved events that the disconnected device sends while it
\* owns no grab leave the actor where it is.
C2_DisconnectEndsGrab ==
  [][\A d \in Devices :
       /\ (lastEvent' = Event("disconnected", d) /\ grabbedObject.controller = d)
            => /\ grabbedObject' = NoGrab
               /\ controllers'[handedness(d)] = "null"
               /\ ~threw'
       /\ (lastEvent' = Event("moved", d) /\ controllers[handedness(d)] # d
             /\ grabbedObject.controller # d)
            => actorPos' = actorPos]_vars

\* The owner was disconnected in mid-grab after dragging the actor, and has
\* sent a moved event since.
C2_Witness ==
  /\ lastEvent = Event("moved", "L1")
  /\ grabStart.dev = "L1" /\ grabStart.endedBy = "disconnected"
  /\ controllers["left"] = "null"
  /\ actorPos # Origin
  /\ ctrlPos["L1"] # Add3(grabStart.ctrl, actorPos)

\* C3: once the input source of the grab's owner was removed, the next poll
\* of updateGrab leaves no grab: after a poll during a session, an active grab
\* is owned by a controller that is in its slot.
C3_RemovedOwnerReleased ==
  (lastEvent.type = "updateGrab" /\ isXRActive /\ grabbedObject.controller # "null")
    => Slot(handedness(grabbedObject.controller)) = grabbedObject.controller

\* C4: while a pinch is active (pinchObject set) both slots hold a controller.
C4_PinchNeedsBothControllers ==
  pinchObject.actor # "null" => (controllers["left"] # "null" /\ controllers["right"] # "null")

\* C5: with one controller and only trigger events, a grab owned by that
\* controller is active exactly between a selectstart (with an actor in the
\* scene) and the next selectend.
C5_GrabBetweenDownAndUp ==
  /\ grabbedObject.controller \in {"null", "L1"}
  /\ (grabbedObject.controller = "L1") <=> (grabStart.active /\ grabStart.dev = "L1")
  /\ grabStart.active => trig["L1"]

\* A grab that dragged the actor has been released, and a second one started.
C5_Witness ==
  /\ grabbedObject.controller = "L1"
  /\ lastEvent = Event("selectstart", "L1")
  /\ actorPos # Origin

\* C6: after every moved event of the grabbing controller the actor is where
\* it was at grab start plus the controller's displacement since then, and so
\* it is when the owner's trigger-up ends the grab.
C6_GrabFollowsDisplacement ==
  [][\A d \in Devices :
       ((lastEvent' = Event("moved", d) \/ lastEvent' = Event("selectend", d))
          /\ grabbedObject.controller = d)
         => actorPos' = FollowsDisplacement(ctrlPos', d)]_vars

\* The owner's trigger-up ended a second grab; both grabs dragged the actor.
C6_Witness ==
  /\ lastEvent = Event("selectend", "R1")
  /\ grabStart.dev = "R1" /\ grabStart.endedBy = "selectend"
  /\ grabStart.actor # Origin
  /\ actorPos # grabStart.actor
  /\ grabStart.ctrl # Origin

\* C7: at every poll of updateGrab with a grab active, the actor is where it
\* was at grab start plus the owner's displacement since grab start.
C7_PollGrabFollowsDisplacement ==
  (lastEvent.type = "updateGrab" /\ isXRActive /\ grabbedObject.controller # "null")
    => actorPos = FollowsDisplacement(ctrlPos, grabbedObject.controller)

\* C8: a grab is created only while none is active: a selectstart of one
\* controller while the other owns the grab leaves grabbedObject as it is.
C8_NoGrabOverActiveGrab ==
  [][\A d \in Devices :
       (lastEvent' = Event("selectstart", d) /\ grabbedObject.controller \notin {"null", d})
         => grabbedObject' = grabbedObject]_vars

\* C9: a pinch is created only when both grips are held, and while fewer
\* than two grips are held controller movement leaves the actor's scale as
\* it is.
C9_PinchOnlyWithBothGrips ==
  [][/\ (pinchObject.actor = "null" /\ pinchObject'.actor # "null")
          => \A d \in Devices : grip'[d]
     /\ (lastEvent'.type = "moved" /\ ~(\A d \in Devices : grip[d]))
          => actorScale' = actorScale]_vars

\* C10: at every poll of updatePinchScale while both grips are held, the
\* actor's scale is the scale it had at the first such poll of this pinch
\* times (current distance / distance at that poll).
C10_PollPinchScale ==
  (lastEvent.type = "updatePinchScale" /\ BothGripsHeld /\ pinchSeen.active
     /\ pinchSeen.dist > 0)
    => actorScale = Mul(pinchSeen.scale, Norm(PollDistance, pinchSeen.dist))

\* C11: in the first pinch of a manager, begun with both grips held at
\* distance 1 and the actor's scale 1, a poll at distance 2 sets the scale to
\* 2; and a poll made while fewer than two grips are held leaves the scale as
\* it is, whatever the distance between the controllers.
C11_ScaleKeptAfterRelease ==
  [][lastEvent'.type = "updatePinchScale" =>
       /\ (/\ BothGripsHeld
           /\ pinchSeen.active /\ pinchSeen.nth = 1
           /\ pinchSeen.dist = 1 /\ pinchSeen.scale = One
           /\ PollDistance = 2)
            => actorScale' = <<2, 1>>
       /\ ~(\A d \in Devices : grip[d]) => actorScale' = actorScale]_vars

\* The first pinch went from distance 1 to 2, one grip was released, the
\* controllers were moved together and the loop has polled since.
C11_Witness ==
  /\ lastEvent.type = "updatePinchScale"
  /\ actorScale = <<2, 1>>
  /\ pinchSeen.nth = 1 /\ ~pinchSeen.active
  /\ grip["L1"] /\ ~grip["R1"]
  /\ Slot("left") = "L1" /\ Slot("right") = "R1"
  /\ PollDistance = 0

\* C12: a squeezeend of either controller during a pinch leaves pinchObject
\* null and the actor's scale as it was just before the release.
C12_ReleaseKeepsScale ==
  [][\A d \in Devices :
       (lastEvent' = Event("squeezeend", d) /\ pinchObject.actor # "null")
         => /\ pinchObject' = NoPinch
            /\ actorScale' = actorScale]_vars

\* A pinch that began at one scale was released at another, neither being 1.
C12_Witness ==
  /\ lastEvent.type = "squeezeend"
  /\ pinchObject = NoPinch
  /\ ~pinchSeen.active /\ pinchSeen.nth = 1
  /\ pinchSeen.scale # One
  /\ actorScale \notin {One, pinchSeen.scale}

\* The device of hand h that connected last among those not disconnected.
MostRecent(h) ==
  IF connected[h] = <<>> THEN "null" ELSE connected[h][Len(connected[h])]

\* C13: each hand's slot holds the most recently connected device of that
\* hand that has not been disconnected, or nothing when there is none; so a
\* late disconnect of a replaced device does not empty the newer one's slot.
C13_SlotHoldsMostRecent ==
  \A h \in Hands : controllers[h] = MostRecent(h)

\* The manipulators bound at present.
BoundSet == {bound[i] : i \in 1..Len(bound)}

\* The manipulators the contract lists for each mode.
Listed(mode) ==
  CASE mode = "rotate"    -> {"rotateManipulator", "panManipulator", "zoomManipulator"}
    [] mode = "scale"     -> {"scaleManipulator", "panManipulator", "rotateManipulator"}
    [] mode = "translate" -> {"panManipulator", "rotateManipulator", "zoomManipulator"}
    [] mode = "inspect"   -> {"rotateManipulator", "zoomManipulator"}

\* C14: after setMode(m), for m one of the four modes, no manipulator outside
\* the set listed for m is bound, whatever modes were set before: none but
\* rotate and zoom in inspect, no scale manipulator in rotate and translate.
C14_NothingLeftBound ==
  /\ currentMode \in Modes => BoundSet \subseteq Listed(currentMode)
  /\ currentMode = "inspect" =>
       BoundSet \cap {"panManipulator", "scaleManipulator"} = {}
  /\ currentMode \in {"rotate", "translate"} => "scaleManipulator" \notin BoundSet

\* Inspect was entered after the scale mode had been set and used.
C14_Witness ==
  /\ lastEvent.type = "setMode"
  /\ currentMode = "inspect"
  /\ button["rotateManipulator"] = 3
  /\ actorScale # One

\* What setMode('rotate') binds from the present state.
RotateFromHere ==
  ModeSwitch("rotate", removeAllMouseManipulators([bound |-> bound, button |-> button]))

\* C15: setMode with a string that is none of the four modes raises nothing
\* and binds what setMode('rotate') binds from the same state: rotate, pan on
\* button 2, zoom on button 3.
C15_UnknownModeBindsRotate ==
  [][(lastEvent'.type = "setMode" /\ currentMode' \notin Modes)
       => /\ ~threw'
          /\ bound' = RotateFromHere.bound
          /\ button' = RotateFromHere.button
          /\ bound' = <<"rotateManipulator", "panManipulator", "zoomManipulator">>
          /\ button'["panManipulator"] = 2
          /\ button'["zoomManipulator"] = 3]_vars

\* An unknown mode was set after the translate mode had moved pan to button 1;
\* the scale manipulator had been used before.
C15_Witness ==
  /\ lastEvent.type = "setMode"
  /\ currentMode \notin Modes
  /\ button["rotateManipulator"] = 2
  /\ BoundSet = {"rotateManipulator", "panManipulator", "zoomManipulator"}
  /\ actorScale # One

\* C16: the current mode (what getCurrentMode returns) is always one of
\* rotate, scale, translate, inspect.
C16_ModeIsEnumerated == currentMode \in Modes

\* C17: every setMode call, whatever its argument and whether or not the mode
\* changes, makes exactly one renderWindow.render() call.
C17_OneRedrawPerSetMode ==
  [][lastEvent'.type = "setMode" => redraws' = 1]_vars

\* setMode was called with the mode already current, on a state that differs
\* from the initial one.
C17_Witness ==
  /\ lastEvent.type = "setMode"
  /\ redraws = 1
  /\ currentMode = "scale"
  /\ Bindings = {<<"scaleManipulator", 1>>, <<"panManipulator", 2>>,
                 <<"rotateManipulator", 3>>}
  /\ actorScale # One

\* One of the four held flags of a controller in its slot is set.
AnyHeld == \E h \in Hands : HandTrigger(h) \/ HandGrip(h)

\* C18: a tick of the view loop makes exactly one redraw when at least one
\* held flag of a connected controller is set, and none otherwise.
C18_OneRedrawPerTick ==
  [][lastEvent'.type = "animate" => redraws' = IF AnyHeld THEN 1 ELSE 0]_vars

\* A tick with three of the flags set at once.
C18_Witness ==
  /\ lastEvent.type = "animate"
  /\ redraws = 1
  /\ HandTrigger("left") /\ HandTrigger("right") /\ HandGrip("left")

\* C20: once initialize() has run there is exactly one animate callback
\* pending between frames: a tick registers itself again exactly once, with or
\* without a session, a second initialize() adds none, and animate keeps
\* being run.
C20_OneAnimateLoop ==
  /\ [](animatePending = IF isInitialized THEN 1 ELSE 0)
  /\ [][lastEvent'.type \in {"animate", "initialize"} /\ isInitialized
         => animatePending' = animatePending]_vars
  /\ (isInitialized ~> lastEvent.type = "animate")

\* initialize() was called again after the loop had turned the camera, with
\* no session active.
C20_Witness ==
  /\ lastEvent.type = "initialize"
  /\ animatePending = 1
  /\ camera.elevation # 0
  /\ ~isXRActive

\* The ticks of the four frame loops.
Ticks == {"animate", "updatePinchScale", "updateGrab", "laserLoop"}

\* C19: while no XR session is active, a tick of the view, pinch, grab or
\* laser loop leaves the camera and the actor's position, scale and colour as
\* they are and makes no redraw, whatever flags the controllers were left with.
C19_IdleTicksChangeNothing ==
  [][(~isXRActive /\ lastEvent'.type \in Ticks)
       => /\ camera' = camera
          /\ actorPos' = actorPos
          /\ actorScale' = actorScale
          /\ actorColor' = actorColor
          /\ redraws' = 0]_vars

\* The session ended in mid-grab with the trigger and a grip held and the
\* actor highlighted; the controller has moved since and the grab loop ticked.
C19_Witness ==
  /\ ~isXRActive
  /\ lastEvent.type = "updateGrab"
  /\ triggerPressed["R1"] /\ gripPressed["L1"]
  /\ grabbedObject.controller = "R1"
  /\ ctrlPos["R1"] # actorPos
  /\ camera.azimuth # 0
  /\ actorColor = HighlightColor

\* C21: the selectstart and squeezestart handlers of setupVRInteractions
\* raise nothing on a controller that has no pulse function.
C21_HapticNeverThrows ==
  (lastEvent.type \in {"selectstart", "squeezestart"}
     /\ lastEvent.dev \notin PulseDevices) => ~threw

\* C22: after makeActorInteractive and any grabs and pinches, reset() raises
\* nothing, puts the actor's position, scale and rotation back to the values
\* captured by makeActorInteractive, and makes one redraw.
C22_ResetRestoresCaptured ==
  [][(lastEvent'.type = "reset" /\ captured.done)
       => /\ ~threw'
          /\ actorPos' = captured.position
          /\ actorScale' = captured.scale
          /\ actorRot' = captured.rotation
          /\ redraws' = 1]_vars

\* C23: with one controller, after each poll of the laser loop during a
\* session the actor carries the highlight colour if the controller's ray
\* finds it, and an actor this hand had highlighted and no longer finds has
\* lost the highlight.
C23_HighlightFollowsHit ==
  [][(lastEvent'.type = "laserLoop" /\ isXRActive /\ Slot("right") = "R1")
       => /\ checkRayIntersection("R1") => actorColor' = HighlightColor
          /\ (~checkRayIntersection("R1") /\ highlightedActors["right"])
               => /\ actorColor' # HighlightColor
                  /\ ~highlightedActors'["right"]]_vars

\* The actor was highlighted, dragged away by a grab and left behind; the
\* controller has moved off and the loop has removed the highlight.
C23_Witness ==
  /\ lastEvent.type = "laserLoop"
  /\ isXRActive /\ Slot("right") = "R1"
  /\ originalColor # "null"
  /\ ~highlightedActors["right"]
  /\ actorColor = White
  /\ actorPos # Origin
  /\ ~checkRayIntersection("R1")

\* The colour laserLoop's step for a hand applies on a new hit: the step
\* hands highlightActor the actor and TRUE, and nothing of the hand.
HitColor(hand) == highlightActor(Laser, TRUE).actorColor

\* C24: the highlight colour a hit by the left controller applies differs
\* from the one a hit by the right controller applies.
C24_HighlightDistinctPerHand ==
  (/\ lastEvent.type = "laserLoop" /\ isXRActive
   /\ highlightedActors["left"] /\ ~highlightedActors["right"]
   /\ actorColor = HitColor("left"))
    => HitColor("left") # HitColor("right")

\* A controller in its slot finds the actor during a session.
SomeHit ==
  /\ isXRActive
  /\ \E h \in Hands : Slot(h) # "null" /\ checkRayIntersection(Slot(h))

\* C25: after a poll of the laser loop the actor carries no highlight unless
\* a connected controller finds it during a session; so the highlight of a
\* controller that was removed, or whose session ended, is gone by then.
C25_HighlightGoneAfterDisconnect ==
  (lastEvent.type = "laserLoop" /\ ~SomeHit) => actorColor # HighlightColor

\* C26: when a grab of the event-driven manager ends, by the trigger-up or by
\* the disconnect of its controller, the actor has the colour it had just
\* before the grab began, whatever colour that was.
C26_GrabEndRestoresColor ==
  [][(grabStart.active /\ ~grabStart'.active) => actorColor' = grabStart.color]_vars

\* C27: while the renderer has no actor, a trigger-down of the event-driven
\* manager creates no grab, changes no colour, draws nothing and raises
\* nothing, and the trigger-up that follows it changes nothing either.
C27_NoActorNoGrab ==
  [][(lastEvent'.type \in {"selectstart", "selectend"} /\ ~inScene)
       => /\ grabbedObject' = NoGrab
          /\ UNCHANGED <<grabbedObject, actorVars, pinchObject, pinchStartDistance>>
          /\ redraws' = 0
          /\ ~threw']_vars

C27_Witness ==
  /\ lastEvent.type = "selectend"
  /\ ~inScene
  /\ \A d \in Devices : ~trig[d]
  /\ grabbedObject = NoGrab
  /\ actorColor = White

\* C29: a two-handed interaction begins only with both grips held, and it
\* begins from the distance, scale and vector of that moment; after a gripend
\* none is on; and a moved event that finds a grip released changes neither
\* the actor's scale nor its rotation.
C29_TwoHandedOnlyWhileBothGrip ==
  [][/\ (~th.twoHandedInteraction /\ th'.twoHandedInteraction)
          => /\ grip'["L1"] /\ grip'["R1"]
             /\ th'.initialDistance = Distance(ctrlPos'["L1"], ctrlPos'["R1"])
             /\ th'.initialObjectScale = actorScale
             /\ th'.initialVector = Sub3(ctrlPos'["R1"], ctrlPos'["L1"])
     /\ lastEvent'.type = "gripend" => ~th'.twoHandedInteraction
     /\ (lastEvent'.type = "moved" /\ ~(grip["L1"] /\ grip["R1"]))
          => UNCHANGED <<actorScale, actorRot>>]_vars

\* After an interaction that scaled and turned the actor, a grip was released
\* and a controller moved to where the interaction would have scaled further.
C29_Witness ==
  /\ lastEvent.type = "moved"
  /\ ~th.twoHandedInteraction
  /\ grip["R1"] /\ ~grip["L1"]
  /\ actorRot # 0
  /\ actorScale # One
  /\ actorScale # Mul(th.initialObjectScale,
                      Norm(Distance(ctrlPos["L1"], ctrlPos["R1"]), th.initialDistance))

\* C30: at a poll of updateGrab during a session, with no grab and both
\* trigger flags set, the right controller becomes the owner; a grab's owner
\* never changes; a grab ends only at a poll that finds the owner's flag
\* clear, every such poll ends it, and that poll does not move the actor.
C30_RightFirstOwnerKept ==
  [][/\ (/\ lastEvent'.type = "updateGrab" /\ isXRActive
         /\ grabbedObject.controller = "null"
         /\ HandTrigger("left") /\ HandTrigger("right"))
          => grabbedObject'.controller = Slot("right")
     /\ (grabbedObject.controller # "null" /\ grabbedObject'.controller # "null")
          => grabbedObject'.controller = grabbedObject.controller
     /\ (grabbedObject.controller # "null" /\ grabbedObject'.controller = "null")
          => /\ lastEvent'.type = "updateGrab"
             /\ ~triggerPressed[grabbedObject.controller]
             /\ actorPos' = actorPos
     /\ (/\ lastEvent'.type = "updateGrab" /\ isXRActive
         /\ grabbedObject.controller # "null"
         /\ ~triggerPressed[grabbedObject.controller])
          => /\ grabbedObject'.controller = "null"
             /\ actorPos' = actorPos]_vars

\* The right controller's grab has ended at a poll that found the left
\* trigger flag set, and it left the actor away from where the owner is now.
C30_Witness ==
  /\ lastEvent.type = "updateGrab"
  /\ isXRActive
  /\ grabbedObject.controller = "null"
  /\ grabStart.dev = "R1" /\ grabStart.endedBy = "selectend"
  /\ Slot("left") = "L1" /\ triggerPressed["L1"]
  /\ Slot("right") = "R1" /\ ~triggerPressed["R1"]
  /\ actorPos # ctrlPos["R1"]

\* No grab, pinch or two-handed interaction is on, and no trigger or grip is
\* held or flagged as held.
Inactive ==
  /\ grabbedObject = NoGrab
  /\ pinchObject = NoPinch
  /\ ~th.twoHandedInteraction
  /\ ~th.left.gripping /\ ~th.right.gripping
  /\ \A d \in AllDevices : ~trig[d] /\ ~grip[d] /\ ~triggerPressed[d] /\ ~gripPressed[d]

\* C28: a moved event or a poll of updateGrab or updatePinchScale that finds
\* every gesture inactive and nothing held leaves the actor's position,
\* scale, rotation and colour alone, draws nothing, and leaves every gesture
\* inactive, so that any number of them do.
C28_InactiveRecognizersDoNothing ==
  [][(Inactive /\ lastEvent'.type \in {"moved", "updateGrab", "updatePinchScale"})
       => /\ UNCHANGED <<actorPos, actorScale, actorRot, actorColor>>
          /\ redraws' = 0
          /\ ~threw'
          /\ Inactive']_vars

\* An idle poll during a session, after a grab has moved the actor and a
\* pinch has scaled it.
C28_Witness ==
  /\ Inactive
  /\ lastEvent.type \in {"updateGrab", "updatePinchScale"}
  /\ isXRActive
  /\ actorPos # Origin
  /\ actorScale # One

\* C31: while a controller owns the grab of the event-driven manager, the
\* other controller's moved and selectend events leave the grab and the
\* actor's position as they are; the actor moves only on the owner's moved
\* events, and a selectend ends the grab only if it is the owner's.
C31_OtherControllerLeavesGrab ==
  [][grabbedObject.controller # "null"
       => /\ (/\ lastEvent'.type \in {"moved", "selectend"}
              /\ lastEvent'.dev # grabbedObject.controller)
               => UNCHANGED <<grabbedObject, actorPos>>
          /\ actorPos' # actorPos
               => lastEvent'.type = "moved" /\ lastEvent'.dev = grabbedObject.controller
          /\ (lastEvent'.type = "selectend" /\ grabbedObject' = NoGrab)
               => lastEvent'.dev = grabbedObject.controller]_vars

\* The left controller has released its trigger and moved away while the
\* right one holds the actor somewhere else.
C31_Witness ==
  /\ grabbedObject.controller = "R1"
  /\ lastEvent = Event("moved", "L1")
  /\ ~trig["L1"] /\ trig["R1"]
  /\ ctrlPos["L1"] # Origin
  /\ actorPos # Origin
  /\ actorPos # Add3(grabbedObject.initialPosition,
                     Sub3(ctrlPos["L1"], grabbedObject.initialControllerPosition))

\* C32: after every poll of the laser loop during a session, the actor
\* carries the highlight colour if a connected controller finds it; so it
\* stays highlighted when one of two hands that found it loses it.
C32_HighlightedWhileAnyHit ==
  (lastEvent.type = "laserLoop" /\ SomeHit) => actorColor = HighlightColor

\* C33: when a poll of the laser loop removes the highlight, the actor gets
\* the colour it had just before that highlight was applied, in every
\* episode, and also after the colour selector changed the colour between
\* two episodes.
C33_HighlightRoundTrip ==
  [][(/\ lastEvent'.type = "laserLoop"
      /\ highlightedActors["right"] /\ ~highlightedActors'["right"])
       => actorColor' = beforeHighlight]_vars

\* C34: no gesture of the polling manager outlives its XR session: the poll
\* of updateGrab that follows a session start, before any trigger is pressed,
\* leaves no grab; and a poll of updatePinchScale scales the actor only from
\* a start distance and scale recorded in the session it runs in.
C34_NoGestureSurvivesSession ==
  [][/\ (lastEvent.type = "sessionstart" /\ lastEvent'.type = "updateGrab")
          => grabbedObject'.controller = "null"
     /\ (lastEvent'.type = "updatePinchScale" /\ actorScale' # actorScale)
          => pinchSeen.recorded]_vars

\* C35: a pinch of the event-driven manager that began with the two
\* controllers at the same place, so with a start distance of 0, never has a
\* moved event set the actor's scale to a quotient by 0 (Infinity or NaN).
C35_NoScaleFromZeroDistance ==
  [][(/\ lastEvent'.type = "moved"
      /\ pinchObject # NoPinch /\ pinchStartDistance = 0
      /\ actorScale' # actorScale)
       => actorScale'[2] # 0]_vars

\* C36: once the page is set up, and after every selection of a mode, the
\* interactor has the style whose manipulators setMode rebinds.
C36_ModeStyleInEffect ==
  lastEvent.type \in {"setupStandardInteractions", "setMode", "drag"}
    => interactorStyle = "modes"

C38_LastSelectedFileShown ==
  (files.reading = {} /\ files.selected # "none")
    => files.mapperInput = files.selected

\* C39: the clicks on the VR button call startXR and stopXR in turn, startXR
\* first, and the button reads 'Send To VR' whenever no XR session is active
\* or being started, also after a session that ended without a click.
C39_ButtonFollowsSession ==
  [][/\ lastEvent'.type = "click"
          => vrButton'.lastCall = IF vrButton.lastCall = "startXR"
                                  THEN "stopXR" ELSE "startXR"
     /\ vrButton'.session = "none" => vrButton'.textContent = "Send To VR"]_vars

====
